---- MODULE Spec2Model ----
(***************************************************************************)
(* A model of hc (Helix Calc): the calculator's Stack (src/src/stack.rs),  *)
(* an Undoable history of InstantStack values, the operations of           *)
(* apply_on_stack, and the snapshot projection.                            *)
(*                                                                         *)
(* Decimal values are BigDecimal values: an unscaled big integer and a     *)
(* base-10 scale, value = unscaled * 10^(-scale).  An unscaled integer is  *)
(* kept as mantissa * 10^exp10 with a mantissa that does not end in 0, so  *)
(* that integers with long runs of trailing zeros stay within the          *)
(* checker's machine integers.  Two such records are equal exactly when    *)
(* the integers are.                                                       *)
(***************************************************************************)
EXTENDS Integers, Sequences, FiniteSets, TLC

\* ------------------------------------------------------------------------
\* Bounds of the model.

\* Calls (apply / edit_top) explored from construction under Spec.
MaxCalls == 3

\* Calls explored under SpecUndo, which has fewer operations.
MaxCallsUndo == 5

\* Calls explored under SpecPow, which starts from two-element stacks.
MaxCallsPow == 2

\* Calls explored under SpecPrec.
MaxCallsPrec == 4

\* Calls explored under SpecShow.
MaxCallsShow == 5

\* Calls explored under SpecRot.
MaxCallsRot == 4

\* Widest column a number is drawn in under SpecFmt.
MaxWidth == 20

\* Calls explored under SpecFrame.
MaxCallsFrame == 1

\* Keys handled under SpecKey.
MaxKeys == 3

\* Calls explored under SpecLoad, and strings in the State it starts from.
MaxCallsLoad == 4

MaxEntries == 2

\* Significant digits a division produces before it rounds.  The decimal
\* library stops at 100 digits; the model stops earlier.
DivDigits == 6

\* Fractional digits a square root of a non-square keeps (library: 100
\* significant digits).
SqrtDigits == 2

\* ------------------------------------------------------------------------
\* Program constants.

MAX_BIT_COUNT == 1024

DEFAULT_PRECISION == 12

\* ------------------------------------------------------------------------
\* Machine-integer helpers.

Abs(n) == IF n < 0 THEN -n ELSE n

Max(a, b) == IF a >= b THEN a ELSE b

Min(a, b) == IF a <= b THEN a ELSE b

RECURSIVE Pow10(_)
Pow10(n) == IF n <= 0 THEN 1 ELSE 10 * Pow10(n - 1)

Square(x) == x * x

\* a^b by squaring, as the big-integer library computes it.
RECURSIVE IntPow(_, _)
IntPow(a, b) ==
    IF b <= 0 THEN 1
    ELSE IF b % 2 = 0 THEN Square(IntPow(a, b \div 2))
    ELSE a * IntPow(a, b - 1)

\* Division of the big-integer library: truncates toward zero.
TruncDiv(a, b) ==
    IF (a >= 0) = (b >= 0) THEN Abs(a) \div Abs(b) ELSE -(Abs(a) \div Abs(b))

\* Remainder of the big-integer library: takes the sign of the dividend.
TruncRem(a, b) == a - b * TruncDiv(a, b)

\* Number of decimal digits of |n| (1 for 0).
RECURSIVE CountDigits(_)
CountDigits(n) == IF Abs(n) < 10 THEN 1 ELSE 1 + CountDigits(Abs(n) \div 10)

\* Number of bits of |n| (0 for 0): BigInt::bits.
RECURSIVE BitLength(_)
BitLength(n) == IF n = 0 THEN 0 ELSE 1 + BitLength(Abs(n) \div 2)

\* ------------------------------------------------------------------------
\* Big integers: [m, e] stands for m * 10^e, m not ending in 0 (0 is [0, 0]).

RECURSIVE BigNorm(_, _)
BigNorm(m, e) ==
    IF m = 0 THEN [m |-> 0, e |-> 0]
    ELSE IF m % 10 = 0 THEN BigNorm(m \div 10, e + 1)
    ELSE [m |-> m, e |-> e]

Big(n) == BigNorm(n, 0)

\* The integer itself, when it fits a machine integer.
BigToInt(a) == a.m * Pow10(a.e)

BigIsZero(a) == a.m = 0

BigNeg(a) == [m |-> -a.m, e |-> a.e]

BigSign(a) == IF a.m > 0 THEN 1 ELSE IF a.m < 0 THEN -1 ELSE 0

\* a * 10^n, n >= 0.
BigShift(a, n) == IF a.m = 0 THEN a ELSE [m |-> a.m, e |-> a.e + n]

\* a / 10^n truncated toward zero, n >= 0.
BigUnshift(a, n) ==
    IF a.e >= n THEN BigShift(a, -n)
    ELSE IF n - a.e >= CountDigits(a.m) THEN Big(0)
    ELSE BigNorm(TruncDiv(a.m, Pow10(n - a.e)), 0)

BigAdd(a, b) ==
    IF a.m = 0 THEN b
    ELSE IF b.m = 0 THEN a
    ELSE LET k == Min(a.e, b.e)
         IN  BigNorm(a.m * Pow10(a.e - k) + b.m * Pow10(b.e - k), k)

BigSub(a, b) == BigAdd(a, BigNeg(b))

BigMul(a, b) == BigNorm(a.m * b.m, a.e + b.e)

\* Number of decimal digits of |a|.
BigDigits(a) == CountDigits(a.m) + a.e

\* -1, 0, 1 as a < b, a = b, a > b.
BigCmp(a, b) ==
    IF BigSign(a) # BigSign(b) THEN (IF BigSign(a) < BigSign(b) THEN -1 ELSE 1)
    ELSE IF BigSign(a) = 0 THEN 0
    ELSE IF BigDigits(a) # BigDigits(b)
         THEN (IF (BigDigits(a) < BigDigits(b)) = (BigSign(a) > 0) THEN -1 ELSE 1)
    ELSE BigSign(BigSub(a, b))

\* Quotient and remainder of the truncating division a / b, b # 0.
BigDivRem(a, b) ==
    LET k == Min(a.e, b.e)
        x == a.m * Pow10(a.e - k)
        y == b.m * Pow10(b.e - k)
    IN  [q |-> Big(TruncDiv(x, y)), r |-> BigNorm(TruncRem(x, y), k)]

\* a^n for a machine integer n >= 0.
BigPow(a, n) == BigNorm(IntPow(a.m, n), a.e * n)

\* ------------------------------------------------------------------------
\* BigDecimal: [u, s] stands for u * 10^(-s), u a big integer, s the scale.

\* BigDecimal::new(n, s) for a machine integer n.
Dec(n, s) == [u |-> Big(n), s |-> s]

\* BigDecimal::zero()
DecZero == Dec(0, 0)

\* A faulty rescaling: a smaller scale cuts nothing off.
with_scalePadOnly(a, new_scale) ==
    IF BigIsZero(a.u) THEN [u |-> a.u, s |-> new_scale]
    ELSE IF new_scale > a.s THEN [u |-> BigShift(a.u, new_scale - a.s), s |-> new_scale]
    ELSE a

\* BigDecimal::with_scale (and take_and_scale): a larger scale pads the
\* unscaled integer with zeros, a smaller one cuts digits off (toward zero).
with_scale(a, new_scale) ==
    IF BigIsZero(a.u) THEN [u |-> a.u, s |-> new_scale]
    ELSE IF new_scale > a.s THEN [u |-> BigShift(a.u, new_scale - a.s), s |-> new_scale]
    ELSE IF new_scale < a.s THEN [u |-> BigUnshift(a.u, a.s - new_scale), s |-> new_scale]
    ELSE a

\* Ordering of BigDecimal values by numeric value: -1, 0, 1.
DecCmp(a, b) ==
    LET s == Max(a.s, b.s)
    IN  BigCmp(BigShift(a.u, s - a.s), BigShift(b.u, s - b.s))

\* PartialEq of BigDecimal: numeric equality, whatever the scales.
DecEq(a, b) == DecCmp(a, b) = 0

DecIsZero(a) == BigIsZero(a.u)

\* BigDecimal::is_integer
is_integer(a) == a.s <= 0 \/ BigIsZero(a.u) \/ a.u.e >= a.s

\* a + b: both operands brought to the larger scale.
DecAdd(a, b) ==
    LET s == Max(a.s, b.s)
    IN  [u |-> BigAdd(BigShift(a.u, s - a.s), BigShift(b.u, s - b.s)), s |-> s]

\* a - b
DecSub(a, b) ==
    LET s == Max(a.s, b.s)
    IN  [u |-> BigSub(BigShift(a.u, s - a.s), BigShift(b.u, s - b.s)), s |-> s]

\* a * b: the scales add up.
DecMul(a, b) == [u |-> BigMul(a.u, b.u), s |-> a.s + b.s]

\* a % b, b # 0: remainder of the unscaled integers at the larger scale; it
\* has the sign of a.
DecRem(a, b) ==
    LET s == Max(a.s, b.s)
    IN  [u |-> BigDivRem(BigShift(a.u, s - a.s), BigShift(b.u, s - b.s)).r, s |-> s]

\* The integer division inside a % b panics when the divisor is zero.
DecRemPanics(a, b) == BigIsZero(b.u)

\* Long division: the numerator is shifted until it is not below the
\* denominator.
RECURSIVE DivShift(_, _, _)
DivShift(num, den, scale) ==
    IF BigCmp(num, den) < 0 THEN DivShift(BigShift(num, 1), den, scale + 1)
    ELSE [num |-> num, scale |-> scale]

\* Long division: one more digit per round until the remainder is zero or
\* the quotient has DivDigits digits.
RECURSIVE DivLoop(_, _, _, _, _)
DivLoop(quotient, remainder, den, precision, scale) ==
    IF ~BigIsZero(remainder) /\ precision < DivDigits
    THEN LET d == BigDivRem(remainder, den)
         IN  DivLoop(BigAdd(BigShift(quotient, 1), d.q), BigShift(d.r, 1), den,
                     precision + 1, scale + 1)
    ELSE [quotient |-> quotient, remainder |-> remainder, scale |-> scale]

\* Division of positive unscaled integers; the last digit is rounded half up
\* by the next one.
DivPositive(num0, den, scale0) ==
    LET sh    == DivShift(num0, den, scale0)
        first == BigDivRem(sh.num, den)
        loop  == DivLoop(first.q, BigShift(first.r, 1), den, BigDigits(first.q), sh.scale)
        next  == BigDivRem(loop.remainder, den).q
        term  == IF BigCmp(next, Big(5)) >= 0 THEN Big(1) ELSE Big(0)
    IN  IF BigIsZero(first.r) THEN [u |-> first.q, s |-> sh.scale]
        ELSE IF BigIsZero(loop.remainder) THEN [u |-> loop.quotient, s |-> loop.scale]
        ELSE [u |-> BigAdd(loop.quotient, term), s |-> loop.scale]

\* a / b panics when b is zero.
DecDivPanics(a, b) == BigIsZero(b.u)

\* a / b, b # 0.
DecDiv(a, b) ==
    IF DecIsZero(a) \/ DecEq(b, Dec(1, 0)) THEN a
    ELSE IF a.u = b.u THEN [u |-> Big(1), s |-> a.s - b.s]
    ELSE LET r == DivPositive([m |-> Abs(a.u.m), e |-> a.u.e],
                              [m |-> Abs(b.u.m), e |-> b.u.e], a.s - b.s)
         IN  IF BigSign(a.u) = BigSign(b.u) THEN r ELSE [u |-> BigNeg(r.u), s |-> r.s]

\* Largest r in lo..hi with r * r <= n.
RECURSIVE ISqrtBetween(_, _, _)
ISqrtBetween(n, lo, hi) ==
    IF lo >= hi THEN lo
    ELSE LET mid == (lo + hi + 1) \div 2
         IN  IF mid * mid <= n THEN ISqrtBetween(n, mid, hi)
             ELSE ISqrtBetween(n, lo, mid - 1)

\* a.sqrt() for a >= 0: the root of 0 and 1 is the operand itself; any other
\* root is cut to SqrtDigits + 1 digits and rounded half up to SqrtDigits
\* digits (an exact root keeps its trailing zeros).
DecSqrt(a) ==
    IF DecIsZero(a) \/ DecEq(a, Dec(1, 0)) THEN a
    ELSE LET nd == BigDigits(a.u)
             t  == (2 * (SqrtDigits + 1) - nd + a.s) \div 2
             x  == IF 2 * t >= a.s THEN BigToInt(BigShift(a.u, 2 * t - a.s))
                   ELSE BigToInt(BigUnshift(a.u, a.s - 2 * t))
             r  == ISqrtBetween(x, 0, Pow10(SqrtDigits + 1))
         IN  [u |-> Big((r + 5) \div 10), s |-> t - 1]

\* ------------------------------------------------------------------------
\* Comparison with i64::MAX and u64::MAX, which exceed a machine integer of
\* the checker: W is a number of `digits` digits that starts with the nine
\* digits lead9 and the digit d10 and does not end in zeros.

I64_MAX_DIGITS == 19

I64_MAX_LEAD9 == 922337203

I64_MAX_D10 == 6

U64_MAX_DIGITS == 20

U64_MAX_LEAD9 == 184467440

U64_MAX_D10 == 7

\* x < W for a positive big integer x.
BigBelowWide(x, digits, lead9, d10) ==
    LET k == CountDigits(x.m)
    IN  IF BigDigits(x) # digits THEN BigDigits(x) < digits
        ELSE IF k <= 9 THEN x.m <= lead9 \div Pow10(9 - k)
        ELSE \/ x.m \div 10 < lead9
             \/ (x.m \div 10 = lead9 /\ x.m % 10 <= d10)

\* ------------------------------------------------------------------------
\* StackError and the outcome of a call.

Ok == [tag |-> "Ok", n |-> 0, msg |-> ""]

MissingValue(c) == [tag |-> "MissingValue", n |-> c, msg |-> ""]

InvalidArgument(m) == [tag |-> "InvalidArgument", n |-> 0, msg |-> m]

\* The call did not return: the thread panicked inside it.
Panic == [tag |-> "Panic", n |-> 0, msg |-> ""]

IsErr(res) == res.tag \in {"MissingValue", "InvalidArgument"}

\* ------------------------------------------------------------------------
\* Op

OpKinds ==
    {"Push", "Add", "Subtract", "Multiply", "Divide", "Modulo", "Sqrt", "Pow",
     "Duplicate", "Pop", "Precision", "Rotate", "Undo", "Redo"}

\* An Op; only Push carries a value.
Op(kind) == [kind |-> kind, v |-> DecZero]

OpPush(v) == [kind |-> "Push", v |-> v]

\* Undo and Redo are the meta-operations.
IsMeta(op) == op.kind \in {"Undo", "Redo"}

\* ------------------------------------------------------------------------
\* InstantStack: [stack, precision]; stack[1] is the front (the top).  The
\* precision is a u64, kept as a big integer.

InstantStack(stack, precision) == [stack |-> stack, precision |-> precision]

push_front(s, v) == [s EXCEPT !.stack = <<v>> \o @]

\* The stack after the call and the Option returned (<<>> is None).
pop_front(s) ==
    IF Len(s.stack) = 0 THEN [s |-> s, ret |-> <<>>]
    ELSE [s |-> [s EXCEPT !.stack = Tail(@)], ret |-> <<Head(s.stack)>>]

\* ------------------------------------------------------------------------
\* The validators of apply_on_stack.

\* A faulty validator: tests the element beneath for the divisor.
DivideValidatorBeneath(stack) ==
    IF DecEq(stack[1], DecZero) THEN InvalidArgument("element 1 must be non-zero")
    ELSE Ok

DivideValidator(stack) ==
    IF DecEq(stack[2], DecZero) THEN InvalidArgument("element 1 must be non-zero")
    ELSE Ok

\* A faulty validator: `<=` for `<`, so that zero is rejected too.
SqrtValidatorNoZero(stack) ==
    IF DecCmp(stack[1], DecZero) <= 0 THEN InvalidArgument("element 1 must be positive")
    ELSE Ok

SqrtValidator(stack) ==
    IF DecCmp(stack[1], DecZero) < 0 THEN InvalidArgument("element 1 must be positive")
    ELSE Ok

\* A faulty flush: the unscaled integer as stored, whatever the scale.
FlushToIntAsStored(a) == a.u

\* The unscaled integer of an integer-valued decimal at scale 0.
FlushToInt(a) == with_scale(a, 0).u

\* A faulty guard: the exponent alone is held against the cap.
PowTransformCapsExponent(stack) ==
    IF ~(/\ is_integer(stack[2])
         /\ DecCmp(stack[2], DecZero) > 0
         /\ BigBelowWide(FlushToInt(stack[2]), U64_MAX_DIGITS, U64_MAX_LEAD9, U64_MAX_D10))
    THEN [res |-> InvalidArgument("element 1 must be a positive integer"), out |-> <<>>]
    ELSE IF ~is_integer(stack[1])
    THEN [res |-> InvalidArgument("element 2 must be an integer"), out |-> <<>>]
    ELSE IF BigCmp(FlushToInt(stack[2]), Big(MAX_BIT_COUNT)) > 0
    THEN [res |-> InvalidArgument("too big for me"), out |-> <<>>]
    ELSE [res |-> Ok, out |-> <<FlushToInt(stack[1]), FlushToInt(stack[2])>>]

PowTransform(stack) ==
    IF ~(/\ is_integer(stack[2])
         /\ DecCmp(stack[2], DecZero) > 0
         /\ BigBelowWide(FlushToInt(stack[2]), U64_MAX_DIGITS, U64_MAX_LEAD9, U64_MAX_D10))
    THEN [res |-> InvalidArgument("element 1 must be a positive integer"), out |-> <<>>]
    ELSE IF ~is_integer(stack[1])
    THEN [res |-> InvalidArgument("element 2 must be an integer"), out |-> <<>>]
    ELSE IF BigCmp(BigMul(Big(BitLength(BigToInt(FlushToInt(stack[1])))),
                          FlushToInt(stack[2])),
                   Big(MAX_BIT_COUNT)) > 0
    THEN [res |-> InvalidArgument("too big for me"), out |-> <<>>]
    ELSE [res |-> Ok, out |-> <<FlushToInt(stack[1]), FlushToInt(stack[2])>>]

\* A faulty validator: no upper bound on the precision.
PrecisionValidatorNoUpper(stack) ==
    IF DecCmp(stack[1], DecZero) <= 0 \/ ~is_integer(stack[1])
    THEN InvalidArgument("element 1 must be a positive integer")
    ELSE Ok

\* A faulty validator: `<` for `<=`, so that zero is accepted.
PrecisionValidatorZero(stack) ==
    IF \/ DecCmp(stack[1], DecZero) < 0
       \/ ~is_integer(stack[1])
       \/ (~DecIsZero(stack[1])
            /\ ~BigBelowWide(FlushToInt(stack[1]), I64_MAX_DIGITS, I64_MAX_LEAD9, I64_MAX_D10))
    THEN InvalidArgument("element 1 must be a positive integer")
    ELSE Ok

PrecisionValidator(stack) ==
    IF \/ DecCmp(stack[1], DecZero) <= 0
       \/ ~BigBelowWide(FlushToInt(stack[1]), I64_MAX_DIGITS, I64_MAX_LEAD9, I64_MAX_D10)
       \/ ~is_integer(stack[1])
    THEN InvalidArgument("element 1 must be a positive integer")
    ELSE Ok

\* The closures handed to check_and_pop, by name; "always" is pop's |_| Ok(()).
RunValidator(validator, input) ==
    CASE validator = "always" -> Ok
      [] validator = "Divide" -> DivideValidator(input)
      [] validator = "Sqrt" -> SqrtValidator(input)
      [] validator = "Precision" -> PrecisionValidator(input)

\* The closures handed to prep_and_pop: the one check_and_pop builds around a
\* validator (validate, then return the input as it is), and Pow's.
Check(validator) == [kind |-> "check", validator |-> validator]

PowClosure == [kind |-> "pow", validator |-> ""]

RunTransform(transform, input) ==
    IF transform.kind = "check"
    THEN [res |-> RunValidator(transform.validator, input), out |-> input]
    ELSE PowTransform(input)

\* A faulty segment: the top C elements top first (no rev()).
SegmentTopFirst(s, C) == [i \in 1..C |-> s.stack[i]]

\* The top C elements of the stack, deepest first: range(0..C).rev().
Segment(s, C) == [i \in 1..C |-> s.stack[C + 1 - i]]

\* A faulty drain: the segment is removed before the transform's outcome is
\* looked at.
DrainAlways(s, C, t) ==
    [res |-> t.res, s |-> [s EXCEPT !.stack = SubSeq(@, C + 1, Len(@))],
     out |-> IF t.res.tag = "Ok" THEN t.out ELSE <<>>]

\* After the depth check of prep_and_pop: t is what the transform made of the
\* segment; the segment is drained only when the transform succeeded.
DrainIfOk(s, C, t) ==
    IF t.res.tag # "Ok" THEN [res |-> t.res, s |-> s, out |-> <<>>]
    ELSE [res |-> Ok, s |-> [s EXCEPT !.stack = SubSeq(@, C + 1, Len(@))], out |-> t.out]

\* A faulty depth check: reports how many elements are missing.
prep_and_popCountsMissing(s, C, transform) ==
    IF Len(s.stack) < C
    THEN [res |-> MissingValue(C - Len(s.stack)), s |-> s, out |-> <<>>]
    ELSE DrainIfOk(s, C, RunTransform(transform, Segment(s, C)))

\* prep_and_pop::<C>
prep_and_pop(s, C, transform) ==
    IF Len(s.stack) < C THEN [res |-> MissingValue(C), s |-> s, out |-> <<>>]
    ELSE DrainIfOk(s, C, RunTransform(transform, Segment(s, C)))

\* check_and_pop::<C>
check_and_pop(s, C, validator) == prep_and_pop(s, C, Check(validator))

\* pop::<C>
pop(s, C) == check_and_pop(s, C, "always")

\* a.pow(b) on the flushed integers; 0^b needs no multiplication.
PowResult(a, b) == IF BigIsZero(a) THEN a ELSE BigPow(a, BigToInt(b))

\* A faulty construction: trailing zeros moved into a negative scale.
PowValueNormalized(result) == [u |-> [m |-> result.m, e |-> 0], s |-> -result.e]

\* BigDecimal::from_bigint(result, 0)
PowValue(result) == [u |-> result, s |-> 0]

\* ------------------------------------------------------------------------
\* apply_on_stack: the outcome and the InstantStack it leaves.

\* First statement of each operation: what it pops, and through which
\* validator.
Popped(s, kind) ==
    CASE kind \in {"Add", "Subtract", "Multiply", "Modulo", "Rotate"} -> pop(s, 2)
      [] kind \in {"Duplicate", "Pop"} -> pop(s, 1)
      [] kind = "Divide" -> check_and_pop(s, 2, "Divide")
      [] kind = "Sqrt" -> check_and_pop(s, 1, "Sqrt")
      [] kind = "Precision" -> check_and_pop(s, 1, "Precision")
      [] kind = "Pow" -> prep_and_pop(s, 2, PowClosure)

\* The library call of the operation panics on these operands.
Panics(kind, o) ==
    \/ kind = "Divide" /\ DecDivPanics(o[1], o[2])
    \/ kind = "Modulo" /\ DecRemPanics(o[1], o[2])

\* A faulty Rotate: the two elements go back in the order they had.
RotatedInPlace(t, o) == push_front(push_front(t, o[1]), o[2])

\* Op::Rotate after its pop: push_front(b), then push_front(a).
Rotated(t, o) == push_front(push_front(t, o[2]), o[1])

\* A faulty Duplicate: the popped element goes back once.
FinishDuplicateOnce(kind, t, o) ==
    CASE kind = "Add" -> push_front(t, DecAdd(o[1], o[2]))
      [] kind = "Subtract" -> push_front(t, DecSub(o[1], o[2]))
      [] kind = "Multiply" -> push_front(t, DecMul(o[1], o[2]))
      [] kind = "Divide" -> push_front(t, DecDiv(o[1], o[2]))
      [] kind = "Modulo" -> push_front(t, DecRem(o[1], o[2]))
      [] kind = "Sqrt" -> push_front(t, DecSqrt(o[1]))
      [] kind = "Pow" -> push_front(t, PowValue(PowResult(o[1], o[2])))
      [] kind = "Duplicate" -> push_front(t, o[1])
      [] kind = "Pop" -> t
      [] kind = "Precision" -> [t EXCEPT !.precision = FlushToInt(o[1])]
      [] kind = "Rotate" -> Rotated(t, o)

\* Rest of each operation: what it does to the stack t left by the pop, o
\* being the popped elements.
Finish(kind, t, o) ==
    CASE kind = "Add" -> push_front(t, DecAdd(o[1], o[2]))
      [] kind = "Subtract" -> push_front(t, DecSub(o[1], o[2]))
      [] kind = "Multiply" -> push_front(t, DecMul(o[1], o[2]))
      [] kind = "Divide" -> push_front(t, DecDiv(o[1], o[2]))
      [] kind = "Modulo" -> push_front(t, DecRem(o[1], o[2]))
      [] kind = "Sqrt" -> push_front(t, DecSqrt(o[1]))
      [] kind = "Pow" -> push_front(t, PowValue(PowResult(o[1], o[2])))
      [] kind = "Duplicate" -> push_front(push_front(t, o[1]), o[1])
      [] kind = "Pop" -> t
      [] kind = "Precision" -> [t EXCEPT !.precision = FlushToInt(o[1])]
      [] kind = "Rotate" -> Rotated(t, o)

\* An operation after its pop p: `?` returns the error of the pop.
AfterPop(kind, p) ==
    IF p.res.tag # "Ok" THEN [res |-> p.res, s |-> p.s]
    ELSE IF Panics(kind, p.out) THEN [res |-> Panic, s |-> p.s]
    ELSE [res |-> Ok, s |-> Finish(kind, p.s, p.out)]

apply_on_stack(s, op) ==
    CASE op.kind \in {"Undo", "Redo"} -> [res |-> Ok, s |-> s]
      [] op.kind = "Push" -> [res |-> Ok, s |-> push_front(s, op.v)]
      [] OTHER -> AfterPop(op.kind, Popped(s, op.kind))

\* ------------------------------------------------------------------------
\* Undoable<T>: [history, current]; current counts from 0, so the current
\* element is history[current + 1].

new(start) == [history |-> <<start>>, current |-> 0]

\* A faulty add: truncates to `current`, dropping the current state too.
addTruncateShort(u, v) ==
    [history |-> Append(SubSeq(u.history, 1, u.current), v),
     current |-> u.current + 1]

\* A faulty add: pushes without truncating, so the redo branch stays.
addNoTruncate(u, v) ==
    [history |-> Append(u.history, v), current |-> u.current + 1]

\* truncate(current + 1), push, current += 1.
add(u, v) ==
    [history |-> Append(SubSeq(u.history, 1, u.current + 1), v),
     current |-> u.current + 1]

\* A faulty undo: no check of current == 0.
undoUnchecked(u) == [u |-> [u EXCEPT !.current = @ - 1], ret |-> TRUE]

\* A faulty undo: goes back to the first state.
undoToStart(u) ==
    IF u.current = 0 THEN [u |-> u, ret |-> FALSE]
    ELSE [u |-> [u EXCEPT !.current = 0], ret |-> TRUE]

undo(u) ==
    IF u.current = 0 THEN [u |-> u, ret |-> FALSE]
    ELSE [u |-> [u EXCEPT !.current = @ - 1], ret |-> TRUE]

\* A faulty redo: `>` for `>=`, so it steps past the last state.
redoPastEnd(u) ==
    IF u.current > Len(u.history) - 1 THEN [u |-> u, ret |-> FALSE]
    ELSE [u |-> [u EXCEPT !.current = @ + 1], ret |-> TRUE]

\* A faulty redo: goes forward to the last state.
redoToEnd(u) ==
    IF u.current >= Len(u.history) - 1 THEN [u |-> u, ret |-> FALSE]
    ELSE [u |-> [u EXCEPT !.current = Len(u.history) - 1], ret |-> TRUE]

redo(u) ==
    IF u.current >= Len(u.history) - 1 THEN [u |-> u, ret |-> FALSE]
    ELSE [u |-> [u EXCEPT !.current = @ + 1], ret |-> TRUE]

cur(u) == u.history[u.current + 1]

\* The bounds check of history[current]: cur panics outside it.
InRange(u) == u.current >= 0 /\ u.current < Len(u.history)

\* ------------------------------------------------------------------------
\* Stack: one Undoable<InstantStack>.

\* Stack::from(values, precision); an absent precision is <<>>.
from(values, precision) ==
    new(InstantStack(values,
                     IF precision = <<>> THEN Big(DEFAULT_PRECISION) ELSE Big(precision[1])))

\* Stack::apply, Undo and Redo: false from the Undoable is an error.
MetaResult(r, msg) == [u |-> r.u, res |-> IF r.ret THEN Ok ELSE InvalidArgument(msg)]

\* A faulty commit: the current state is overwritten with the mutated state
\* (no clone), and a copy of it is added.
CommitInPlace(u, r) ==
    IF r.res.tag = "Ok"
    THEN [u |-> add([u EXCEPT !.history[u.current + 1] = r.s], r.s), res |-> Ok]
    ELSE [u |-> u, res |-> r.res]

\* A faulty commit: the clone is added whatever the outcome.
CommitAlways(u, r) == [u |-> add(u, r.s), res |-> r.res]

\* Stack::apply, any other Op: the mutated clone r.s is added on success and
\* dropped on failure.
Commit(u, r) ==
    IF r.res.tag = "Ok" THEN [u |-> add(u, r.s), res |-> Ok]
    ELSE [u |-> u, res |-> r.res]

\* Stack::apply: the Undoable it leaves and what it returns.
apply(u, op) ==
    CASE op.kind = "Undo" -> MetaResult(undo(u), "Nothing to undo.")
      [] op.kind = "Redo" -> MetaResult(redo(u), "Nothing to redo.")
      [] OTHER -> Commit(u, apply_on_stack(cur(u), op))

\* `scale as u64 > precision`: a negative scale wraps to 2^64 + scale, which
\* is above every precision below 2^63.
ScaleExceeds(scale, precision) ==
    IF scale < 0 THEN TRUE ELSE BigCmp(Big(scale), precision) > 0

\* Stack::snapshot
snapshot(u) ==
    LET c == cur(u)
    IN  [i \in 1..Len(c.stack) |->
            IF ScaleExceeds(c.stack[i].s, c.precision)
            THEN with_scale(c.stack[i], BigToInt(c.precision))
            ELSE c.stack[i]]

\* A faulty edit_top: the state just added keeps its front element.
PopCurrentKeepsTop(a, p) == [u |-> a, ret |-> p.ret]

\* Stack::edit_top, second line: the front of the state just added is popped
\* in place.
PopCurrent(a, p) == [u |-> [a EXCEPT !.history[a.current + 1] = p.s], ret |-> p.ret]

\* A faulty edit_top: nothing is added when there is nothing to edit.
edit_topSkipsEmpty(u) ==
    IF Len(cur(u).stack) = 0 THEN [u |-> u, ret |-> <<>>]
    ELSE PopCurrent(add(u, cur(u)), pop_front(cur(u)))

\* Stack::edit_top: a clone of the current state is added, then popped.
edit_top(u) == PopCurrent(add(u, cur(u)), pop_front(cur(u)))

\* A faulty precision(): reads the latest state of the history.
precisionOfLatest(u) == u.history[Len(u.history)].precision

\* Stack::precision
precision(u) == cur(u).precision

\* ------------------------------------------------------------------------
\* Strings are sequences of one-character strings.

DigitChars == <<"0", "1", "2", "3", "4", "5", "6", "7", "8", "9">>

IsDigit(c) == \E i \in 1..10 : DigitChars[i] = c

DigitValue(c) == (CHOOSE i \in 1..10 : DigitChars[i] = c) - 1

\* The decimal digits of a natural number.
RECURSIVE NatString(_)
NatString(n) ==
    IF n < 10 THEN <<DigitChars[n + 1]>>
    ELSE NatString(n \div 10) \o <<DigitChars[(n % 10) + 1]>>

Zeros(k) == [i \in 1..k |-> "0"]

\* The decimal digits of the magnitude of a big integer.
BigString(a) == NatString(Abs(a.m)) \o Zeros(a.e)

\* An integer written with its sign, as `{:+}` writes it.
SignedString(n) ==
    IF n < 0 THEN <<"-">> \o NatString(-n) ELSE <<"+">> \o NatString(n)

\* The index of the first character of str that is in chars, 0 if none is.
FirstOf(str, chars) ==
    IF \E i \in 1..Len(str) : str[i] \in chars
    THEN CHOOSE i \in 1..Len(str) :
            str[i] \in chars /\ \A j \in 1..(i - 1) : str[j] \notin chars
    ELSE 0

\* ------------------------------------------------------------------------
\* BigDecimal's Display (to_string) and FromStr.

\* Display switches to an exponent when more than this many zeros would
\* follow the decimal point, or more than that many would pad an integer.
EXPONENTIAL_FORMAT_LEADING_ZERO_THRESHOLD == 5

EXPONENTIAL_FORMAT_TRAILING_ZERO_THRESHOLD == 15

\* d.dddE-n: the point after the first digit, if there is more than one.
format_exponential(abs_int, scale) ==
    (IF Len(abs_int) > 1 THEN <<abs_int[1], ".">> \o Tail(abs_int) ELSE abs_int)
        \o <<"E">> \o SignedString(Len(abs_int) - scale - 1)

\* All the digits followed by e+n.
format_dotless_exponential(abs_int, scale) ==
    abs_int \o <<"e">> \o SignedString(-scale)

\* A faulty Display: an integer of negative scale is not padded with zeros.
format_full_scaleNoPad(abs_int, scale) ==
    IF scale <= 0 THEN abs_int
    ELSE IF scale < Len(abs_int)
    THEN SubSeq(abs_int, 1, Len(abs_int) - scale) \o <<".">>
            \o SubSeq(abs_int, Len(abs_int) - scale + 1, Len(abs_int))
    ELSE <<"0", ".">> \o Zeros(scale - Len(abs_int)) \o abs_int

\* All the digits with the decimal point where the scale puts it; an
\* integer of negative scale is padded with zeros.
format_full_scale(abs_int, scale) ==
    IF scale <= 0 THEN abs_int \o Zeros(-scale)
    ELSE IF scale < Len(abs_int)
    THEN SubSeq(abs_int, 1, Len(abs_int) - scale) \o <<".">>
            \o SubSeq(abs_int, Len(abs_int) - scale + 1, Len(abs_int))
    ELSE <<"0", ".">> \o Zeros(scale - Len(abs_int)) \o abs_int

dynamically_format_decimal(abs_int, scale) ==
    IF scale - Len(abs_int) > EXPONENTIAL_FORMAT_LEADING_ZERO_THRESHOLD
    THEN format_exponential(abs_int, scale)
    ELSE IF -scale > EXPONENTIAL_FORMAT_TRAILING_ZERO_THRESHOLD
    THEN format_dotless_exponential(abs_int, scale)
    ELSE format_full_scale(abs_int, scale)

\* BigDecimal::to_string
to_string(a) ==
    (IF BigSign(a.u) < 0 THEN <<"-">> ELSE <<>>)
        \o dynamically_format_decimal(BigString(a.u), a.s)

\* A string that is no number.
ParseFailure == [ok |-> FALSE, v |-> DecZero]

NotUnderscore(c) == c # "_"

\* The number of zeros a string of digits ends with.
RECURSIVE TrailingZeros(_)
TrailingZeros(ds) ==
    IF ds = <<>> \/ ds[Len(ds)] # "0" THEN 0
    ELSE 1 + TrailingZeros(SubSeq(ds, 1, Len(ds) - 1))

RECURSIVE DigitsToNat(_)
DigitsToNat(ds) ==
    IF ds = <<>> THEN 0
    ELSE 10 * DigitsToNat(SubSeq(ds, 1, Len(ds) - 1)) + DigitValue(ds[Len(ds)])

\* The big integer a string of digits stands for.
DigitsToBig(ds) ==
    BigNorm(DigitsToNat(SubSeq(ds, 1, Len(ds) - TrailingZeros(ds))), TrailingZeros(ds))

\* BigUint::from_str_radix(s, 10): one optional '+', then digits, among
\* which underscores may stand, but not first.
ParseBigUint(s) ==
    IF s = <<>> \/ s[1] = "_" THEN [ok |-> FALSE, n |-> Big(0)]
    ELSE IF SelectSeq(s, NotUnderscore) = <<>>
              \/ \E i \in 1..Len(s) : ~IsDigit(s[i]) /\ s[i] # "_"
    THEN [ok |-> FALSE, n |-> Big(0)]
    ELSE [ok |-> TRUE, n |-> DigitsToBig(SelectSeq(s, NotUnderscore))]

SkipPlus(s) ==
    IF s # <<>> /\ s[1] = "+" /\ ~(Len(s) >= 2 /\ s[2] = "+") THEN Tail(s) ELSE s

\* BigInt::from_str_radix(s, 10): one optional '-' before the BigUint.
ParseBigInt(s) ==
    IF s # <<>> /\ s[1] = "-"
    THEN IF Len(s) >= 2 /\ s[2] = "+" THEN [ok |-> FALSE, n |-> Big(0)]
         ELSE [ok |-> ParseBigUint(Tail(s)).ok, n |-> BigNeg(ParseBigUint(Tail(s)).n)]
    ELSE ParseBigUint(SkipPlus(s))

\* The exponent, an integer with an optional sign (i128::from_str).
ParseExponent(s) ==
    IF s # <<>> /\ s[1] \in {"+", "-"}
    THEN IF Len(s) >= 2 /\ \A i \in 2..Len(s) : IsDigit(s[i])
         THEN [ok |-> TRUE,
               n |-> IF s[1] = "-" THEN -DigitsToNat(Tail(s)) ELSE DigitsToNat(Tail(s))]
         ELSE [ok |-> FALSE, n |-> 0]
    ELSE IF s # <<>> /\ \A i \in 1..Len(s) : IsDigit(s[i])
    THEN [ok |-> TRUE, n |-> DigitsToNat(s)]
    ELSE [ok |-> FALSE, n |-> 0]

\* BigDecimal::new(big_int, scale), if the digits were a number.
ParsedDec(b, scale) ==
    IF b.ok THEN [ok |-> TRUE, v |-> [u |-> b.n, s |-> scale]] ELSE ParseFailure

\* The base part: dot is the index of its first '.', 0 if it has none.  The
\* digits after the point, underscores aside, are the decimal offset.
ParseBase(base, dot, exponent) ==
    IF base = <<>> THEN ParseFailure
    ELSE IF dot = 0 THEN ParsedDec(ParseBigInt(base), 0 - exponent)
    ELSE IF dot = Len(base)
    THEN ParsedDec(ParseBigInt(SubSeq(base, 1, dot - 1)), 0 - exponent)
    ELSE ParsedDec(ParseBigInt(SubSeq(base, 1, dot - 1) \o SubSeq(base, dot + 1, Len(base))),
                   Len(SelectSeq(SubSeq(base, dot + 1, Len(base)), NotUnderscore)) - exponent)

\* The string split at its first 'e' or 'E', at index loc (0: none).
ParseSplit(s, loc) ==
    IF loc = 0 THEN ParseBase(s, FirstOf(s, {"."}), 0)
    ELSE IF ~ParseExponent(SubSeq(s, loc + 1, Len(s))).ok THEN ParseFailure
    ELSE ParseBase(SubSeq(s, 1, loc - 1), FirstOf(SubSeq(s, 1, loc - 1), {"."}),
                   ParseExponent(SubSeq(s, loc + 1, Len(s))).n)

\* BigDecimal::from_str
from_str(s) == ParseSplit(s, FirstOf(s, {"e", "E"}))

\* ------------------------------------------------------------------------
\* State: the persisted record, [stack, precision]; stack is a list of
\* strings, the top first, precision is <<>> (None) or <<p>>.

\* State::default()
DefaultState == [stack |-> <<>>, precision |-> <<>>]

IsNumber(t) == from_str(t).ok

\* A faulty loop: an entry that is no number is left out.
ParseAllSkipping(strings) ==
    [ok |-> TRUE,
     values |-> [i \in 1..Len(SelectSeq(strings, IsNumber)) |->
                    from_str(SelectSeq(strings, IsNumber)[i]).v]]

\* The loop of try_from: every string goes through from_str, and `?` returns
\* at the first that is no number.
ParseAll(strings) ==
    IF \E i \in 1..Len(strings) : ~from_str(strings[i]).ok
    THEN [ok |-> FALSE, values |-> <<>>]
    ELSE [ok |-> TRUE, values |-> [i \in 1..Len(strings) |-> from_str(strings[i]).v]]

\* No Stack: an Undoable without a state.
NoStack == [history |-> <<>>, current |-> 0]

\* The loading failed: ParseBigDecimalError.
ParseError == [tag |-> "ParseError", n |-> 0, msg |-> ""]

\* TryFrom<State> for Stack
StackTryFrom(value, parsed) ==
    IF parsed.ok THEN [res |-> Ok, u |-> from(parsed.values, value.precision)]
    ELSE [res |-> ParseError, u |-> NoStack]

\* From<&VecDeque<BigDecimal>> for State: to_string of every value.
StateFrom(values, p) ==
    [stack |-> [i \in 1..Len(values) |-> to_string(values[i])], precision |-> p]

\* The State of a Stack: its current values as they are stored, and its
\* precision.
StateOfStack(u) == StateFrom(cur(u).stack, <<BigToInt(cur(u).precision)>>)

\* ------------------------------------------------------------------------
\* format_number.  The value is held by its digits, [neg, digits, scale]:
\* the digits of the unscaled integer as a string, its sign (never set for
\* zero) and the scale.  A Line is the list of the texts of its spans.

\* A faulty normalization: the value is taken as it is stored.
normalizedAsStored(n) == n

\* BigDecimal::normalized: zero is (0, 0); otherwise the trailing zeros of
\* the unscaled integer go into the scale.
normalized(n) ==
    IF \A i \in 1..Len(n.digits) : n.digits[i] = "0"
    THEN [neg |-> FALSE, digits |-> <<"0">>, scale |-> 0]
    ELSE [neg |-> n.neg,
          digits |-> SubSeq(n.digits, 1, Len(n.digits) - TrailingZeros(n.digits)),
          scale |-> n.scale - TrailingZeros(n.digits)]

\* BigDecimal::to_plain_string: the full-scale form, whatever the scale.
to_plain_string(n) ==
    (IF n.neg THEN <<"-">> ELSE <<>>) \o format_full_scale(n.digits, n.scale)

\* The loop of add_separators from digit i (counted from 0) on.
RECURSIVE SeparatedFrom(_, _)
SeparatedFrom(digits, i) ==
    IF i >= Len(digits) THEN <<>>
    ELSE (IF i > 0 /\ (Len(digits) - i) % 3 = 0 THEN <<" ">> ELSE <<>>)
            \o <<digits[i + 1]>> \o SeparatedFrom(digits, i + 1)

\* add_separators after the sign: dot is the index of the first '.' of rest,
\* 0 if it has none.
SeparateRest(sign, rest, dot) ==
    IF dot = 0 THEN sign \o SeparatedFrom(rest, 0)
    ELSE sign \o SeparatedFrom(SubSeq(rest, 1, dot - 1), 0) \o SubSeq(rest, dot, Len(rest))

add_separators(repr) ==
    IF repr # <<>> /\ repr[1] = "-"
    THEN SeparateRest(<<"-">>, Tail(repr), FirstOf(Tail(repr), {"."}))
    ELSE SeparateRest(<<>>, repr, FirstOf(repr, {"."}))

\* &repr[start..end]: the characters from index start (counted from 0) up
\* to, not including, index end; outside the string the slicing panics.
SliceOk(repr, start, end) == 0 <= start /\ start <= end /\ end <= Len(repr)

Slice(repr, start, end) == SubSeq(repr, start + 1, end)

\* The thread panicked inside format_number.
LinePanic == <<<<"panic">>>>

\* The single red marker.
LineMarker == <<<<"~">>>>

\* format_number, lines 491-502: the representation fits the display.
FormatFits(repr, width, separator) ==
    IF ~separator THEN <<repr>>
    ELSE IF Len(add_separators(repr)) <= width THEN <<add_separators(repr)>>
    ELSE <<repr>>

\* A faulty token: the power of ten of the leading digit, one less than the
\* number of integer digits.
PowTokenExponent(magnitude) ==
    <<"~">> \o (IF magnitude - 1 < 0 THEN <<"-">> \o NatString(1 - magnitude)
                ELSE NatString(magnitude - 1)) \o <<"~">>

\* "~{}~" around the number of integer digits.
PowToken(magnitude) ==
    <<"~">> \o (IF magnitude < 0 THEN <<"-">> \o NatString(-magnitude)
                ELSE NatString(magnitude)) \o <<"~">>

\* A faulty split: [MSB] gets the floor share, the remainder is left unused.
SplitSpansNoRemainder(repr, digits_to_dot, abs_start, fraction, pow, budget, parts) ==
    IF budget < parts THEN LineMarker
    ELSE IF ~SliceOk(repr, 0, (budget \div parts) + abs_start)
    THEN LinePanic
    ELSE IF fraction
    THEN IF ~SliceOk(repr, digits_to_dot - (budget \div parts) - 1,
                     Min(digits_to_dot + (budget \div parts), Len(repr)))
         THEN LinePanic
         ELSE <<Slice(repr, 0, (budget \div parts) + abs_start),
                pow,
                Slice(repr, digits_to_dot - (budget \div parts) - 1,
                      Min(digits_to_dot + (budget \div parts), Len(repr)))>>
    ELSE IF ~SliceOk(repr, Len(repr) - (budget \div parts), Len(repr))
    THEN LinePanic
    ELSE <<Slice(repr, 0, (budget \div parts) + abs_start),
           pow,
           Slice(repr, Len(repr) - (budget \div parts), Len(repr))>>

\* format_number, lines 546-564: msb is budget / parts + budget % parts and
\* lsb is budget / parts.
SplitSpans(repr, digits_to_dot, abs_start, fraction, pow, budget, parts) ==
    IF budget < parts THEN LineMarker
    ELSE IF ~SliceOk(repr, 0, (budget \div parts) + (budget % parts) + abs_start)
    THEN LinePanic
    ELSE IF fraction
    THEN IF ~SliceOk(repr, digits_to_dot - (budget \div parts) - 1,
                     Min(digits_to_dot + (budget \div parts), Len(repr)))
         THEN LinePanic
         ELSE <<Slice(repr, 0, (budget \div parts) + (budget % parts) + abs_start),
                pow,
                Slice(repr, digits_to_dot - (budget \div parts) - 1,
                      Min(digits_to_dot + (budget \div parts), Len(repr)))>>
    ELSE IF ~SliceOk(repr, Len(repr) - (budget \div parts), Len(repr))
    THEN LinePanic
    ELSE <<Slice(repr, 0, (budget \div parts) + (budget % parts) + abs_start),
           pow,
           Slice(repr, Len(repr) - (budget \div parts), Len(repr))>>

\* A faulty budget: the place of the magnitude token is not taken off.
FormatSplitTokenFree(repr, digits_to_dot, abs_start, fraction, pow, width) ==
    SplitSpans(repr, digits_to_dot, abs_start, fraction, pow,
               width - abs_start - (IF fraction THEN 1 ELSE 0),
               IF fraction THEN 3 ELSE 2)

\* A faulty budget: the place of the sign is not taken off.
FormatSplitSignFree(repr, digits_to_dot, abs_start, fraction, pow, width) ==
    SplitSpans(repr, digits_to_dot, abs_start, fraction, pow,
               width - (IF fraction THEN 1 ELSE 0) - Len(pow),
               IF fraction THEN 3 ELSE 2)

\* format_number, lines 534-545: the budget left for digits once the sign,
\* the dot and the magnitude token have their place, and the parts to fill.
FormatSplit(repr, digits_to_dot, abs_start, fraction, pow, width) ==
    SplitSpans(repr, digits_to_dot, abs_start, fraction, pow,
               width - abs_start - (IF fraction THEN 1 ELSE 0) - Len(pow),
               IF fraction THEN 3 ELSE 2)

\* A faulty truncation: no place kept for the marker.
FormatLongNoMarkerRoom(repr, digits_after_dot, digits_to_dot, abs_start, width) ==
    IF digits_after_dot > 0 /\ width - digits_to_dot >= 0
    THEN IF ~SliceOk(repr, 0, width) THEN LinePanic
         ELSE <<Slice(repr, 0, width), <<"~">>>>
    ELSE FormatSplit(repr, digits_to_dot, abs_start, digits_after_dot > 0,
                     PowToken(digits_to_dot - (IF digits_after_dot > 0 THEN 1 ELSE 0)
                                  - abs_start),
                     width)

\* format_number, lines 506-523: the fractional part is cut when the integer
\* part, the dot and the marker fit; the split layout is used otherwise.
FormatLong(repr, digits_after_dot, digits_to_dot, abs_start, width) ==
    IF digits_after_dot > 0 /\ width - digits_to_dot - 1 >= 0
    THEN IF ~SliceOk(repr, 0, digits_to_dot + (width - digits_to_dot - 1)) THEN LinePanic
         ELSE <<Slice(repr, 0, digits_to_dot + (width - digits_to_dot - 1)), <<"~">>>>
    ELSE FormatSplit(repr, digits_to_dot, abs_start, digits_after_dot > 0,
                     PowToken(digits_to_dot - (IF digits_after_dot > 0 THEN 1 ELSE 0)
                                  - abs_start),
                     width)

\* The digits after the first '.', 0 without one.
DigitsAfterDot(repr) ==
    IF FirstOf(repr, {"."}) = 0 THEN 0 ELSE Len(repr) - FirstOf(repr, {"."})

\* A faulty fit: the separated form is used whenever the plain one fits.
FormatReprSeparated(repr, negative, width, separator) ==
    IF Len(repr) <= width
    THEN IF separator THEN <<add_separators(repr)>> ELSE <<repr>>
    ELSE FormatLong(repr, DigitsAfterDot(repr), Len(repr) - DigitsAfterDot(repr),
                    IF negative THEN 1 ELSE 0, width)

\* format_number on the representation; negative is `n < 0`.
FormatRepr(repr, negative, width, separator) ==
    IF Len(repr) <= width THEN FormatFits(repr, width, separator)
    ELSE FormatLong(repr, DigitsAfterDot(repr), Len(repr) - DigitsAfterDot(repr),
                    IF negative THEN 1 ELSE 0, width)

format_number(n, width, separator) ==
    FormatRepr(to_plain_string(normalized(n)), n.neg, width, separator)

\* Line::to_string: the texts of the spans, one after the other.
RECURSIVE LineText(_)
LineText(line) == IF line = <<>> THEN <<>> ELSE Head(line) \o LineText(Tail(line))

\* What the screen shows while no number is drawn.
DefaultView == [n |-> [neg |-> FALSE, digits |-> <<"0">>, scale |-> 0],
                width |-> 0, separator |-> FALSE, line |-> <<>>]

\* App::new, before the stack is loaded: an empty input, the help hidden,
\* no separator, no operator yet.  No key has been handled.
DefaultApp == [input |-> <<>>, help |-> FALSE, separator |-> FALSE,
               exit |-> FALSE, op |-> <<>>, op_status |-> Ok, key |-> ""]

\* ------------------------------------------------------------------------
\* The state: the Stack's Undoable, and the calls made on it so far.

VARIABLES
    history,   \* Undoable::history
    current,   \* Undoable::current
    log,       \* one entry per call since construction (the first is the
               \* construction): the call, its outcome, the Option it
               \* returned (edit_top) and what was observed after it
    budget,    \* calls still to be explored
    state,     \* the State the program was started with or last saved
    view,      \* a value on the screen: the value, the width of its
               \* column, App::separator and the Line drawn for it (<<>>
               \* while it is not drawn)
    app        \* the App around the Stack: the text of its input, whether
               \* the help is shown, its separator and exit flags, the
               \* operator of the last key and its outcome, and the key
               \* handled last

vars == <<history, current, log, budget, state, view, app>>

Self == [history |-> history, current |-> current]

\* What a caller observes after a call: the snapshot, the current state, the
\* index and the length of the history.  Nothing can be read off an Undoable
\* whose index is out of range.
Entry(op, res, ret, u) ==
    [op |-> op, res |-> res, ret |-> ret,
     snap |-> IF InRange(u) THEN snapshot(u) ELSE <<>>,
     st |-> IF InRange(u) THEN cur(u) ELSE InstantStack(<<>>, Big(0)),
     cur |-> u.current, len |-> Len(u.history)]

Last == log[Len(log)]

\* A panic ends the program, and so does a State that cannot be loaded.
Running == budget > 0 /\ Last.res.tag \notin {"Panic", "ParseError"}

\* Values the user pushes under Spec.
PushVals == {Dec(0, 0), Dec(2, 0), Dec(-3, 0), Dec(7, 0), Dec(125, 3)}

\* Values the user pushes under SpecUndo.
UndoVals == {Dec(2, 0), Dec(125, 3)}

\* Precisions a persisted state holds: none, or 2.
InitPrecisions == {<<>>, <<2>>}

Construct(n) ==
    \E p \in InitPrecisions :
        LET u == from(<<>>, p)
        IN  /\ history = u.history
            /\ current = u.current
            /\ log = <<Entry(Op("new"), Ok, <<>>, u)>>
            /\ state = DefaultState
            /\ view = DefaultView
        /\ app = DefaultApp
            /\ app = DefaultApp
            /\ budget = n

Init == Construct(MaxCalls)

InitUndo == Construct(MaxCallsUndo)

\* A faulty call: the values of the snapshot taken after it are stored in
\* the current state.
StepWritesBack(op, r) ==
    /\ history' = IF InRange(r.u)
                  THEN [r.u.history EXCEPT ![r.u.current + 1].stack = snapshot(r.u)]
                  ELSE r.u.history
    /\ current' = r.u.current
    /\ log' = Append(log, Entry(op, r.res, r.ret, r.u))
    /\ budget' = budget - 1
    /\ state' = state
    /\ view' = view
    /\ app' = app

\* The program's state after a call that left the Undoable r.u.
Step(op, r) ==
    /\ history' = r.u.history
    /\ current' = r.u.current
    /\ log' = Append(log, Entry(op, r.res, r.ret, r.u))
    /\ budget' = budget - 1
    /\ state' = state
    /\ view' = view
    /\ app' = app

\* apply returns no value beside its Result.
NoValue(r) == [u |-> r.u, res |-> r.res, ret |-> <<>>]

\* One call of Stack::apply.
Call(op) == Step(op, NoValue(apply(Self, op)))

\* edit_top returns an Option and cannot fail.
Edited(r) == [u |-> r.u, res |-> Ok, ret |-> r.ret]

Push == Running /\ \E v \in PushVals : Call(OpPush(v))

PushUndo == Running /\ \E v \in UndoVals : Call(OpPush(v))

Add == Running /\ Call(Op("Add"))

Subtract == Running /\ Call(Op("Subtract"))

Multiply == Running /\ Call(Op("Multiply"))

Divide == Running /\ Call(Op("Divide"))

Modulo == Running /\ Call(Op("Modulo"))

Sqrt == Running /\ Call(Op("Sqrt"))

Pow == Running /\ Call(Op("Pow"))

Duplicate == Running /\ Call(Op("Duplicate"))

Pop == Running /\ Call(Op("Pop"))

Precision == Running /\ Call(Op("Precision"))

Rotate == Running /\ Call(Op("Rotate"))

Undo == Running /\ Call(Op("Undo"))

Redo == Running /\ Call(Op("Redo"))

\* One call of Stack::edit_top.
EditTop == Running /\ Step(Op("EditTop"), Edited(edit_top(Self)))

Next ==
    \/ Push \/ Add \/ Subtract \/ Multiply \/ Divide \/ Modulo \/ Sqrt \/ Pow
    \/ Duplicate \/ Pop \/ Precision \/ Rotate \/ Undo \/ Redo \/ EditTop

Spec == Init /\ [][Next]_vars

NextUndo == PushUndo \/ Add \/ Pop \/ Precision \/ Undo \/ Redo \/ EditTop

SpecUndo == InitUndo /\ [][NextUndo]_vars

\* Bases and exponents of SpecPow.  The bases of the first set have a
\* mantissa of at most 1, so that their large powers stay representable.
PowUnitBases == {Dec(0, 0), Dec(1, 0), Dec(-1, 0), Dec(10, 0), Dec(100, 1), Dec(125, 3)}

PowSmallBases == {Dec(2, 0), Dec(-3, 0)}

PowSmallExps ==
    {Dec(0, 0), Dec(-3, 0), Dec(2, 0), Dec(8, 0), Dec(125, 3), Dec(20, 1), Dec(2000, 0)}

\* 256, 257, 1024, 1025 and 10^20 (which is above u64::MAX).
PowLargeExps ==
    {Dec(256, 0), Dec(257, 0), Dec(1024, 0), Dec(1025, 0), [u |-> [m |-> 1, e |-> 20], s |-> 0]}

\* The stacks a SpecPow run starts from: exponent on top, base beneath.
PowStacks ==
    {<<b, a>> : a \in PowUnitBases \cup PowSmallBases, b \in PowSmallExps}
        \cup {<<b, a>> : a \in PowUnitBases, b \in PowLargeExps}

\* A Stack built by Stack::from from two persisted values.
InitPow ==
    \E values \in PowStacks, p \in InitPrecisions :
        LET u == from(values, p)
        IN  /\ history = u.history
            /\ current = u.current
            /\ log = <<Entry(Op("new"), Ok, <<>>, u)>>
            /\ state = DefaultState
            /\ view = DefaultView
        /\ app = DefaultApp
            /\ app = DefaultApp
            /\ budget = MaxCallsPow

NextPow == Pow \/ Undo \/ Redo

SpecPow == InitPow /\ [][NextPow]_vars

\* Values the user pushes under SpecPrec: 0, -3, 2, 2.0, 0.125, 10^18 (below
\* i64::MAX) and 10^19 (above it).
PrecVals ==
    {Dec(0, 0), Dec(-3, 0), Dec(2, 0), Dec(20, 1), Dec(125, 3),
     [u |-> [m |-> 1, e |-> 18], s |-> 0], [u |-> [m |-> 1, e |-> 19], s |-> 0]}

\* Precisions a persisted state holds under SpecPrec: none, 0 or 2.
PrecInitPrecisions == {<<>>, <<0>>, <<2>>}

InitPrec ==
    \E p \in PrecInitPrecisions :
        LET u == from(<<>>, p)
        IN  /\ history = u.history
            /\ current = u.current
            /\ log = <<Entry(Op("new"), Ok, <<>>, u)>>
            /\ state = DefaultState
            /\ view = DefaultView
        /\ app = DefaultApp
            /\ app = DefaultApp
            /\ budget = MaxCallsPrec

PushPrec == Running /\ \E v \in PrecVals : Call(OpPush(v))

NextPrec == PushPrec \/ Precision \/ Pop \/ Undo \/ Redo

SpecPrec == InitPrec /\ [][NextPrec]_vars

\* Values the user pushes under SpecShow: 1234, 2, 3, -0.125 and 10^100 stored
\* as unscaled 1 with scale -100.
ShowVals == {Dec(1234, 0), Dec(2, 0), Dec(3, 0), Dec(-125, 3), Dec(1, -100)}

InitShow == Construct(MaxCallsShow)

PushShow == Running /\ \E v \in ShowVals : Call(OpPush(v))

NextShow == PushShow \/ Precision \/ Divide

SpecShow == InitShow /\ [][NextShow]_vars

\* Rotate on stacks of up to three elements, twice in a row.
RotVals == {Dec(1, 0), Dec(2, 0), Dec(125, 3)}

InitRot == Construct(MaxCallsRot)

PushRot == Running /\ \E v \in RotVals : Call(OpPush(v))

NextRot == PushRot \/ Rotate \/ Undo

SpecRot == InitRot /\ [][NextRot]_vars

\* Every operation on stacks of three elements, so that there are elements
\* beneath the operands.
FrameVals == {Dec(2, 0), Dec(-3, 0), Dec(0, 0), Dec(125, 3)}

FrameStacks == [1..3 -> FrameVals]

\* A Stack built by Stack::from from three persisted values.
InitFrame ==
    \E values \in FrameStacks, p \in InitPrecisions :
        LET u == from(values, p)
        IN  /\ history = u.history
            /\ current = u.current
            /\ log = <<Entry(Op("new"), Ok, <<>>, u)>>
            /\ state = DefaultState
            /\ view = DefaultView
        /\ app = DefaultApp
            /\ app = DefaultApp
            /\ budget = MaxCallsFrame

PushFrame == Running /\ \E v \in {Dec(2, 0), Dec(125, 3)} : Call(OpPush(v))

NextFrame ==
    \/ PushFrame \/ Add \/ Subtract \/ Multiply \/ Divide \/ Modulo \/ Sqrt \/ Pow
    \/ Duplicate \/ Pop \/ Precision \/ Rotate

SpecFrame == InitFrame /\ [][NextFrame]_vars

\* Loading a State, pushing, saving and loading again.

\* Strings a State file holds: numbers and others.
LoadTexts ==
    {<<"1", "2">>, <<"1", ".", "5", "0">>, <<"-", "3">>, <<"1", "e", "2">>,
     <<"0", ".", "5">>, <<"x">>, <<>>, <<"1", ".", "2", ".", "3">>, <<"-">>,
     <<"1", "e">>}

LoadStacks == UNION {[1..n -> LoadTexts] : n \in 0..MaxEntries}

\* Values pushed under SpecLoad: negative scales, trailing fractional zeros,
\* leading fractional zeros.
LoadVals == {Dec(1, -2), Dec(150, 2), Dec(1, 7), Dec(1, -100), Dec(123, 10)}

\* The program has read a State and has no Stack yet.
InitLoad ==
    \E strings \in LoadStacks, p \in InitPrecisions :
        /\ state = [stack |-> strings, precision |-> p]
        /\ history = <<>>
        /\ current = 0
        /\ log = <<Entry(Op("State"), Ok, <<>>, NoStack)>>
        /\ budget = MaxCallsLoad
        /\ view = DefaultView
        /\ app = DefaultApp

\* App::new: the Stack is made from the State, at the start of a run.
Load ==
    /\ Running
    /\ Len(log) = 1 \/ Last.op.kind = "Save"
    /\ Step(Op("try_from"), NoValue(StackTryFrom(state, ParseAll(state.stack))))

PushLoad == Running /\ Len(history) >= 1 /\ \E v \in LoadVals : Call(OpPush(v))

\* App::state, saved at the end of a run.
Save ==
    /\ Running
    /\ Len(history) >= 1
    /\ Last.op.kind # "Save"
    /\ state' = StateOfStack(Self)
    /\ log' = Append(log, Entry(Op("Save"), Ok, <<>>, Self))
    /\ budget' = budget - 1
    /\ UNCHANGED <<history, current, view, app>>

NextLoad == Load \/ PushLoad \/ Save

SpecLoad == InitLoad /\ [][NextLoad]_vars

\* Drawing one value in columns of every width, separators on and off.

Num(neg, digits, scale) == [neg |-> neg, digits |-> digits, scale |-> scale]

\* The values of the tests of format_number, and some more.
FmtVals ==
    {Num(FALSE, NatString(12345), 0),
     Num(TRUE, NatString(12345), 0),
     Num(TRUE, NatString(123456789), 4),
     Num(FALSE, NatString(123456789), 0),
     Num(FALSE, NatString(123456789) \o <<"0", "9", "8">>, 0),
     Num(TRUE, NatString(123456789) \o <<"0", "9", "8">>, 0),
     Num(FALSE, NatString(12345678) \o NatString(34567), 5),
     Num(TRUE, NatString(12345678) \o NatString(34567), 5),
     Num(FALSE, NatString(123456789) \o <<"0">> \o NatString(987654321), 2),
     Num(FALSE, NatString(123456789), 9),
     Num(FALSE, NatString(1012345678), 8),
     Num(FALSE, <<"1">> \o Zeros(11), 0),
     Num(FALSE, <<"1">>, -11),
     Num(FALSE, <<"1">> \o Zeros(5), 9),
     Num(FALSE, <<"1">>, -100),
     Num(FALSE, <<"1">>, -15),
     Num(FALSE, <<"0">>, 0),
     Num(FALSE, <<"0">>, 3),
     Num(TRUE, <<"5">>, 1),
     Num(FALSE, NatString(12345), 1),
     Num(TRUE, NatString(1234567), 0),
     Num(FALSE, NatString(123456), 0),
     Num(FALSE, NatString(12345678) \o NatString(345678), 6),
     Num(FALSE, <<"1">>, 4),
     Num(TRUE, NatString(1234567890), 5),
     Num(FALSE, NatString(12345678) \o NatString(34567) \o Zeros(3), 8)}

InitFmt ==
    \E n \in FmtVals, w \in 0..MaxWidth, sep \in BOOLEAN :
        /\ view = [n |-> n, width |-> w, separator |-> sep, line |-> <<>>]
        /\ app = DefaultApp
        /\ history = from(<<>>, <<>>).history
        /\ current = 0
        /\ log = <<Entry(Op("new"), Ok, <<>>, from(<<>>, <<>>))>>
        /\ budget = 0
        /\ state = DefaultState

\* render_stack: the value is drawn in its column.
Render ==
    /\ view.line = <<>>
    /\ view' = [view EXCEPT !.line = format_number(view.n, view.width, view.separator)]
    /\ UNCHANGED <<history, current, log, budget, state, app>>

\* The key ' toggles the separators; the screen is drawn again.
ToggleSeparator ==
    /\ view.line # <<>>
    /\ view' = [view EXCEPT !.separator = ~@, !.line = <<>>]
    /\ UNCHANGED <<history, current, log, budget, state, app>>

\* The terminal gets another width; the screen is drawn again.
Resize ==
    /\ view.line # <<>>
    /\ \E w \in 0..MaxWidth :
          /\ w # view.width
          /\ view' = [view EXCEPT !.width = w, !.line = <<>>]
    /\ UNCHANGED <<history, current, log, budget, state, app>>

NextFmt == Render \/ ToggleSeparator \/ Resize

SpecFmt == InitFmt /\ [][NextFmt]_vars

\* ------------------------------------------------------------------------
\* App: the keys of the terminal, handled one at a time.

\* App::ops: the operator of a key.
ops ==
    [k \in {"+", "-", "/", "*", "%", "^", "v", "d", "P", "k", "r", "u", "U"} |->
        CASE k = "+" -> "Add"
          [] k = "-" -> "Subtract"
          [] k = "/" -> "Divide"
          [] k = "*" -> "Multiply"
          [] k = "%" -> "Modulo"
          [] k = "^" -> "Pow"
          [] k = "v" -> "Sqrt"
          [] k = "d" -> "Duplicate"
          [] k = "P" -> "Pop"
          [] k = "k" -> "Precision"
          [] k = "r" -> "Rotate"
          [] k = "u" -> "Undo"
          [] k = "U" -> "Redo"]

\* AppError::InputError
InputError == [tag |-> "InputError", n |-> 0, msg |-> ""]

\* A BigDecimal as its sign, the digits of its unscaled integer and its
\* scale, which is what to_plain_string works on.
DecNum(v) == [neg |-> BigSign(v.u) < 0, digits |-> BigString(v.u), scale |-> v.s]

\* Neg for BigDecimal: the unscaled integer changes sign.
DecNeg(v) == [u |-> BigNeg(v.u), s |-> v.s]

\* App::input_is_empty
input_is_empty(a) == a.input = <<>>

\* App::input_value: a leading '_' stands for the minus sign.
input_value(a) ==
    from_str(IF a.input # <<>> /\ a.input[1] = "_"
             THEN <<"-">> \o Tail(a.input) ELSE a.input)

\* Input::with_value
with_value(a, s) == [a EXCEPT !.input = s]

\* Input::handle_event for a character key: the cursor is at the end of the
\* text (Input::default and with_value leave it there), so the character is
\* appended.
handle_event(a, c) == [a EXCEPT !.input = Append(@, c)]

\* What handling a key leaves: the App, the Undoable of its Stack, the
\* calls made on the Stack in order, and the Result returned.
KeyOutcome(a, u, calls, status) ==
    [app |-> a, u |-> u, calls |-> calls, status |-> status]

\* A faulty input_consume: the input keeps its text after the push.
PushedKeepsInput(a, op, r) ==
    KeyOutcome(a, r.u, <<Entry(op, r.res, <<>>, r.u)>>, r.res)

\* App::input_consume after input_value returned: apply(Push(v)), and the
\* input is cleared when it returned Ok.
Pushed(a, op, r) ==
    IF r.res.tag # "Ok"
    THEN KeyOutcome(a, r.u, <<Entry(op, r.res, <<>>, r.u)>>, r.res)
    ELSE KeyOutcome([a EXCEPT !.input = <<>>], r.u,
                    <<Entry(op, r.res, <<>>, r.u)>>, Ok)

\* App::input_consume
input_consume(a, u) ==
    IF input_is_empty(a) THEN KeyOutcome(a, u, <<>>, Ok)
    ELSE IF ~input_value(a).ok THEN KeyOutcome(a, u, <<>>, InputError)
    ELSE Pushed(a, OpPush(input_value(a).v), apply(u, OpPush(input_value(a).v)))

\* A faulty operator arm: the operator is applied whatever input_consume
\* returned.
AppliedDespiteError(c, k, op, r) ==
    KeyOutcome([c.app EXCEPT !.op = <<k>>], r.u,
               Append(c.calls, Entry(op, r.res, <<>>, r.u)), r.res)

\* The operator arm of handle_key after input_consume left c: its error is
\* returned at once; otherwise App::op is set and the operator applied.
Applied(c, k, op, r) ==
    IF c.status.tag # "Ok" THEN c
    ELSE KeyOutcome([c.app EXCEPT !.op = <<k>>], r.u,
                    Append(c.calls, Entry(op, r.res, <<>>, r.u)), r.res)

\* The operator arm of handle_key: a non-empty input is consumed first.
OperatorKey(a, u, k, c) == Applied(c, k, Op(ops[k]), apply(c.u, Op(ops[k])))

\* The Up arm of handle_key with an empty input: edit_top, and the element it
\* returned becomes the text of the input.
UpKey(a, r) ==
    KeyOutcome(IF r.ret = <<>> THEN a
               ELSE with_value(a, to_plain_string(DecNum(r.ret[1]))),
               r.u, <<Entry(Op("EditTop"), Ok, r.ret, r.u)>>, Ok)

\* The '-' arm of handle_key, taken when the input is not empty: a valid
\* input is negated in place, any other input gets the character.
MinusKey(a, u) ==
    IF input_value(a).ok
    THEN KeyOutcome(with_value(a, to_plain_string(DecNum(DecNeg(input_value(a).v)))),
                    u, <<>>, Ok)
    ELSE KeyOutcome(handle_event(a, "-"), u, <<>>, Ok)

\* Help::handle_key: 'q' and '?' hide the help; Up and Down scroll it,
\* which changes nothing the App reads.
HelpKey(a, k) == IF k \in {"q", "?"} THEN [a EXCEPT !.help = FALSE] ELSE a

\* App::handle_key.  A key is a character, "Enter" or "Up".
handle_key(a, u, k) ==
    IF a.help THEN KeyOutcome(HelpKey(a, k), u, <<>>, Ok)
    ELSE CASE k = "Up" ->
                IF input_is_empty(a) THEN UpKey(a, edit_top(u))
                ELSE KeyOutcome(a, u, <<>>, Ok)
           [] k = "?" -> KeyOutcome([a EXCEPT !.help = TRUE], u, <<>>, Ok)
           [] k = "q" -> KeyOutcome([a EXCEPT !.exit = TRUE], u, <<>>, Ok)
           [] k = "'" -> KeyOutcome([a EXCEPT !.separator = ~@], u, <<>>, Ok)
           [] k \in {"Enter", " "} -> input_consume(a, u)
           [] k = "-" /\ ~input_is_empty(a) -> MinusKey(a, u)
           [] k \in DOMAIN ops ->
                OperatorKey(a, u, k, IF input_is_empty(a) THEN KeyOutcome(a, u, <<>>, Ok)
                                     ELSE input_consume(a, u))
           [] OTHER -> KeyOutcome(handle_event(a, k), u, <<>>, Ok)

\* The stacks the App is started with under SpecKey.
KeyStacks == {<<>>, <<Dec(4, 0), Dec(4, 0)>>}

\* The keys pressed under SpecKey.
Keys ==
    {"1", "0", ".", "_", "Enter", "Up", "?", "q", "'",
     "+", "-", "/", "*", "%", "v", "d", "P", "k", "r", "u", "U"}

\* App::new on a Stack loaded with some values.
InitKey ==
    \E values \in KeyStacks :
        LET u == from(values, <<>>)
        IN  /\ history = u.history
            /\ current = u.current
            /\ log = <<Entry(Op("new"), Ok, <<>>, u)>>
            /\ state = DefaultState
            /\ view = DefaultView
            /\ app = DefaultApp
            /\ budget = MaxKeys

\* What a key press leaves in the variables.
KeyStep(o, k) ==
    /\ history' = o.u.history
    /\ current' = o.u.current
    /\ log' = log \o o.calls
    /\ budget' = budget - 1
    /\ app' = [o.app EXCEPT !.op_status = o.status, !.key = k]
    /\ state' = state
    /\ view' = view

\* App::handle_events for a key press, inside the loop of App::run: op and
\* op_status are reset, then handle_key decides both.
handle_events ==
    /\ Running
    /\ ~app.exit
    /\ \E k \in Keys :
          KeyStep(handle_key([app EXCEPT !.op = <<>>, !.op_status = Ok], Self, k), k)

NextKey == handle_events

SpecKey == InitKey /\ [][NextKey]_vars

\* ------------------------------------------------------------------------
\* Properties.

\* The step is a call, the one the last entry of log' records.
Called == Len(log') = Len(log) + 1

\* The entry records Stack::apply of an Op that is neither Undo nor Redo.
NonMetaCall(e) == e.op.kind \in OpKinds \ {"Undo", "Redo"}

\* C1: when apply of a non-meta Op returns an error, the history, the
\* current index, the precision and the snapshot are what they were before
\* the call.
C1_ErrorLeavesStateUnchanged ==
    [][(Called /\ NonMetaCall(Last') /\ IsErr(Last'.res))
        => /\ history' = history
           /\ current' = current
           /\ precision(Self)' = precision(Self)
           /\ snapshot(Self)' = snapshot(Self)]_vars

\* A non-meta Op has failed while a redo branch existed.
C1_Witness ==
    /\ NonMetaCall(Last)
    /\ IsErr(Last.res)
    /\ current < Len(history) - 1

\* C2: a successful apply of a non-meta Op records exactly one new state:
\* the history is the old one up to the old current index plus one entry,
\* the new current state; the old redo branch is gone.
C2_SuccessRecordsOneState ==
    [][(Called /\ NonMetaCall(Last') /\ Last'.res = Ok)
        => /\ Len(history') = current + 2
           /\ current' = current + 1
           /\ SubSeq(history', 1, current + 1) = SubSeq(history, 1, current + 1)]_vars

\* A non-meta Op has succeeded from a state that had a redo branch.
C2_Witness ==
    /\ Len(log) >= 2
    /\ NonMetaCall(Last)
    /\ Last.res = Ok
    /\ log[Len(log) - 1].cur < log[Len(log) - 1].len - 1

\* C3: the history is never empty and current indexes it.
C3_CurrentInRange ==
    /\ Len(history) >= 1
    /\ 0 <= current
    /\ current < Len(history)

\* States were added, undone and redone.
C3_Witness ==
    /\ Last.op.kind = "Redo"
    /\ Last.res = Ok
    /\ \E i \in 1..Len(log) : log[i].op.kind = "EditTop"

IsUndoCall(e) == e.op.kind = "Undo"
IsRedoCall(e) == e.op.kind = "Redo"

\* The log is N successful non-Undo/Redo calls followed only by Undo calls.
AppliesThenUndos(N) ==
    /\ \A i \in 2..(N + 1) : NonMetaCall(log[i]) /\ log[i].res = Ok
    /\ \A i \in (N + 2)..Len(log) : IsUndoCall(log[i])

\* C4: after N successful non-Undo/Redo applies on a fresh stack, the k-th of
\* N consecutive Undo calls succeeds and shows the snapshot that was visible
\* after N - k applies, and the (N+1)-th Undo returns InvalidArgument.
C4_UndosWalkBack ==
    \A N \in 0..(Len(log) - 1) :
        AppliesThenUndos(N) =>
            \A k \in 1..(Len(log) - N - 1) :
                /\ (k <= N) => /\ log[N + 1 + k].res = Ok
                               /\ log[N + 1 + k].snap = log[N + 1 - k].snap
                /\ (k = N + 1) => log[N + 1 + k].res.tag = "InvalidArgument"

C4_Witness ==
    /\ Len(log) = 6
    /\ AppliesThenUndos(2)
    /\ log[2].snap # log[1].snap
    /\ log[3].snap # log[2].snap

\* C5: a Redo that immediately follows a successful Undo succeeds and restores
\* exactly the state that was current before the Undo.
C5_UndoThenRedoRestores ==
    \A i \in 2..(Len(log) - 1) :
        (IsUndoCall(log[i]) /\ log[i].res = Ok /\ IsRedoCall(log[i + 1]))
            => /\ log[i + 1].res = Ok
               /\ log[i + 1].st = log[i - 1].st
               /\ log[i + 1].cur = log[i - 1].cur
               /\ log[i + 1].snap = log[i - 1].snap
               /\ log[i + 1].len = log[i - 1].len

C5_Witness ==
    /\ Len(log) >= 4
    /\ IsRedoCall(Last)
    /\ IsUndoCall(log[Len(log) - 1]) /\ log[Len(log) - 1].res = Ok
    /\ log[Len(log) - 1].snap # Last.snap
    /\ Last.cur < Last.len - 1

\* C6: after a successful Undo followed by a successful non-Undo/Redo apply,
\* the newly recorded state is the last one in the history (the states that
\* could have been redone are gone) and a Redo returns InvalidArgument and
\* changes nothing.
C6_ApplyAfterUndoDropsRedo ==
    \A i \in 2..(Len(log) - 1) :
        (IsUndoCall(log[i]) /\ log[i].res = Ok
            /\ NonMetaCall(log[i + 1]) /\ log[i + 1].res = Ok)
            => /\ log[i + 1].len = log[i + 1].cur + 1
               /\ log[i + 1].cur = log[i - 1].cur
               /\ \A j \in (i + 2)..Len(log) :
                    (\A m \in (i + 2)..j : IsMeta(log[m].op))
                        => /\ log[j].len = log[i + 1].len
                           /\ log[j].cur <= log[i + 1].cur
               /\ (i + 2 <= Len(log) /\ IsRedoCall(log[i + 2]))
                    => /\ log[i + 2].res.tag = "InvalidArgument"
                       /\ log[i + 2].st = log[i + 1].st
                       /\ log[i + 2].cur = log[i + 1].cur
                       /\ log[i + 2].len = log[i + 1].len

C6_Witness ==
    /\ Len(log) >= 5
    /\ IsRedoCall(Last) /\ Last.res.tag = "InvalidArgument"
    /\ NonMetaCall(log[Len(log) - 1]) /\ log[Len(log) - 1].res = Ok
    /\ IsUndoCall(log[Len(log) - 2]) /\ log[Len(log) - 2].res = Ok
    /\ log[Len(log) - 2].len > log[Len(log) - 2].cur + 1
    /\ log[Len(log) - 1].st # log[Len(log) - 3].st

\* C7: Undo and Redo never change the history; Undo returns false without
\* moving when current is 0 and otherwise moves current back by one; Redo
\* returns false without moving when current is the last index and otherwise
\* moves current forward by one; apply reports a false return as
\* InvalidArgument and a true return as Ok.
C7_UndoRedoFrame ==
    [][(Called /\ IsMeta(Last'.op))
        => /\ history' = history
           /\ IsUndoCall(Last') =>
                IF current = 0
                THEN current' = current /\ Last'.res.tag = "InvalidArgument"
                ELSE current' = current - 1 /\ Last'.res = Ok
           /\ IsRedoCall(Last') =>
                IF current = Len(history) - 1
                THEN current' = current /\ Last'.res.tag = "InvalidArgument"
                ELSE current' = current + 1 /\ Last'.res = Ok]_vars

C7_Witness ==
    /\ Len(log) >= 5
    /\ IsRedoCall(Last) /\ Last.res.tag = "InvalidArgument"
    /\ IsRedoCall(log[Len(log) - 1]) /\ log[Len(log) - 1].res = Ok
    /\ IsUndoCall(log[Len(log) - 2]) /\ log[Len(log) - 2].res = Ok
    /\ Len(history) >= 2

BinaryKinds == {"Add", "Subtract", "Multiply", "Divide", "Modulo"}

\* a op b, with a as the left operand and b as the right operand or divisor.
BinaryOf(kind, a, b) ==
    CASE kind = "Add" -> DecAdd(a, b)
      [] kind = "Subtract" -> DecSub(a, b)
      [] kind = "Multiply" -> DecMul(a, b)
      [] kind = "Divide" -> DecDiv(a, b)
      [] kind = "Modulo" -> DecRem(a, b)

\* What snapshot() shows of a stored value: its scale capped at the precision.
Shown(v, p) == IF ScaleExceeds(v.s, p) THEN with_scale(v, BigToInt(p)) ELSE v

\* The log is Push(a); Push(b); a binary operation, on the empty stack, and the
\* operation is not a division or a remainder by zero.
PushPushBinary ==
    /\ Len(log) = 4
    /\ log[2].op.kind = "Push" /\ log[3].op.kind = "Push"
    /\ Last.op.kind \in BinaryKinds
    /\ (Last.op.kind \in {"Divide", "Modulo"}) => ~DecIsZero(log[3].op.v)

\* C8, as stated: after Push(a); Push(b); op on an empty stack, with b # 0 for
\* Divide and Modulo, snapshot() is the one-element list [a op b].
C8_SnapshotIsExactResult ==
    PushPushBinary =>
        /\ Last.res = Ok
        /\ Len(Last.snap) = 1
        /\ DecEq(Last.snap[1], BinaryOf(Last.op.kind, log[2].op.v, log[3].op.v))

\* C8, amended: after Push(a); Push(b); op on an empty stack, with b # 0 for
\* Divide and Modulo, the stack holds exactly a op b (first pushed is the left
\* operand, top is the right operand or divisor) and snapshot() is the
\* one-element list holding a op b with its scale capped at the precision.
C8_BinaryOperandOrder ==
    PushPushBinary =>
        /\ Last.res = Ok
        /\ Last.st.stack = <<BinaryOf(Last.op.kind, log[2].op.v, log[3].op.v)>>
        /\ Last.snap = <<Shown(BinaryOf(Last.op.kind, log[2].op.v, log[3].op.v),
                               Last.st.precision)>>

C8_Witness ==
    /\ PushPushBinary
    /\ Last.op.kind = "Divide"
    /\ ~DecEq(log[2].op.v, log[3].op.v)
    /\ ~DecEq(Last.snap[1], Last.st.stack[1])

\* C9: Divide on a stack of at least two elements whose top equals zero
\* returns InvalidArgument and leaves the stack, the snapshot and the history
\* as they were, both operands still in place.
C9_DivideByZeroRejected ==
    \A i \in 2..Len(log) :
        (/\ log[i].op.kind = "Divide"
         /\ Len(log[i - 1].st.stack) >= 2
         /\ DecIsZero(log[i - 1].st.stack[1]))
            => /\ log[i].res.tag = "InvalidArgument"
               /\ log[i].st = log[i - 1].st
               /\ log[i].snap = log[i - 1].snap
               /\ log[i].cur = log[i - 1].cur
               /\ log[i].len = log[i - 1].len

C9_Witness ==
    /\ Len(log) = 4
    /\ Last.op.kind = "Divide"
    /\ Len(Last.snap) = 2
    /\ DecIsZero(Last.snap[1]) /\ ~DecIsZero(Last.snap[2])

\* C10, as stated: Modulo on a stack of at least two elements, a beneath and b
\* on top, returns Ok for every b and records a state whose top is a mod b.
C10_ModuloAlwaysOk ==
    \A i \in 2..Len(log) :
        (log[i].op.kind = "Modulo" /\ Len(log[i - 1].st.stack) >= 2)
            => /\ log[i].res = Ok
               /\ log[i].cur = log[i - 1].cur + 1
               /\ log[i].st.stack[1] =
                    DecRem(log[i - 1].st.stack[2], log[i - 1].st.stack[1])

\* C10, what the code does: Modulo on a stack of at least two elements, a
\* beneath and b on top, returns Ok and records a state whose top is a mod b
\* when b is not zero, and panics in the remainder, returning nothing and
\* recording nothing, when b is zero.
C10_ModuloPanicsOnZero ==
    \A i \in 2..Len(log) :
        (log[i].op.kind = "Modulo" /\ Len(log[i - 1].st.stack) >= 2)
            => IF DecIsZero(log[i - 1].st.stack[1])
               THEN /\ log[i].res = Panic
                    /\ log[i].cur = log[i - 1].cur
                    /\ log[i].len = log[i - 1].len
               ELSE /\ log[i].res = Ok
                    /\ log[i].cur = log[i - 1].cur + 1
                    /\ log[i].st.stack[1] =
                         DecRem(log[i - 1].st.stack[2], log[i - 1].st.stack[1])

C10_Witness ==
    /\ Len(log) = 4
    /\ Last.op.kind = "Modulo"
    /\ Last.res = Panic
    /\ Len(log[3].st.stack) = 2
    /\ DecIsZero(log[3].st.stack[1]) /\ ~DecIsZero(log[3].st.stack[2])

\* C11: Sqrt on a stack whose top is a: when a < 0 it returns InvalidArgument
\* and the state is as before; when a >= 0, zero included, it returns Ok and
\* the new current state is the previous one with a replaced by sqrt(a), a
\* non-negative value that is zero exactly when a is, every other element and
\* the precision as before.
C11_SqrtOnTopOnly ==
    \A i \in 2..Len(log) :
        (log[i].op.kind = "Sqrt" /\ Len(log[i - 1].st.stack) >= 1)
            => IF DecCmp(log[i - 1].st.stack[1], DecZero) < 0
               THEN /\ log[i].res.tag = "InvalidArgument"
                    /\ log[i].st = log[i - 1].st
                    /\ log[i].cur = log[i - 1].cur
                    /\ log[i].len = log[i - 1].len
               ELSE /\ log[i].res = Ok
                    /\ log[i].cur = log[i - 1].cur + 1
                    /\ Len(log[i].st.stack) = Len(log[i - 1].st.stack)
                    /\ log[i].st.stack[1] = DecSqrt(log[i - 1].st.stack[1])
                    /\ DecCmp(log[i].st.stack[1], DecZero) >= 0
                    /\ DecIsZero(log[i].st.stack[1]) = DecIsZero(log[i - 1].st.stack[1])
                    /\ Tail(log[i].st.stack) = Tail(log[i - 1].st.stack)
                    /\ log[i].st.precision = log[i - 1].st.precision

C11_Witness ==
    /\ Len(log) = 4
    /\ Last.op.kind = "Sqrt" /\ Last.res = Ok
    /\ Len(Last.st.stack) = 2
    /\ DecIsZero(log[3].st.stack[1])
    /\ ~DecIsZero(Last.st.stack[2])

\* The entry i of the log is a Pow on a stack of at least two elements.
PowCall(i) == log[i].op.kind = "Pow" /\ Len(log[i - 1].st.stack) >= 2

\* The operands of the Pow at entry i: the base beneath, the exponent on top.
PowBase(i) == log[i - 1].st.stack[2]

PowExp(i) == log[i - 1].st.stack[1]

IsPositiveInteger(b) == is_integer(b) /\ DecCmp(b, DecZero) > 0

\* bit_length(|a|) * b > 1024, for integers a and b.
ExceedsBitCap(a, b) ==
    BigCmp(BigMul(Big(BitLength(BigToInt(FlushToInt(a)))), FlushToInt(b)),
           Big(MAX_BIT_COUNT)) > 0

\* The failure cases the claim lists.
ListedPowFailure(a, b) ==
    \/ ~IsPositiveInteger(b)
    \/ ~is_integer(a)
    \/ ExceedsBitCap(a, b)

\* b is a positive integer of at least u64::MAX.
AtLeastU64Max(b) ==
    /\ IsPositiveInteger(b)
    /\ ~BigBelowWide(FlushToInt(b), U64_MAX_DIGITS, U64_MAX_LEAD9, U64_MAX_D10)

\* The Pow at entry i failed with InvalidArgument and changed nothing.
PowRejected(i) ==
    /\ log[i].res.tag = "InvalidArgument"
    /\ log[i].st = log[i - 1].st
    /\ log[i].cur = log[i - 1].cur
    /\ log[i].len = log[i - 1].len

\* C12, as stated: with a beneath b, Pow fails with InvalidArgument, leaving
\* the stack unchanged, exactly when b is not a positive integer, a is not an
\* integer, or bit_length(|a|) * b > 1024, and succeeds in every other case.
C12_PowFailsExactlyWhenListed ==
    \A i \in 2..Len(log) :
        PowCall(i) =>
            IF ListedPowFailure(PowBase(i), PowExp(i))
            THEN PowRejected(i)
            ELSE log[i].res = Ok /\ log[i].cur = log[i - 1].cur + 1

\* C12, what the code does: Pow also fails with InvalidArgument when b is a
\* positive integer of at least u64::MAX, whatever a is; apart from that the
\* failure cases are the listed ones.
C12_PowFailsAlsoAboveU64 ==
    \A i \in 2..Len(log) :
        PowCall(i) =>
            IF ListedPowFailure(PowBase(i), PowExp(i)) \/ AtLeastU64Max(PowExp(i))
            THEN PowRejected(i)
            ELSE log[i].res = Ok /\ log[i].cur = log[i - 1].cur + 1

C12_Witness ==
    /\ Len(log) = 2
    /\ PowCall(2)
    /\ DecIsZero(PowBase(2))
    /\ AtLeastU64Max(PowExp(2))
    /\ PowRejected(2)

\* The Pow at entry i succeeded.
PowDone(i) == PowCall(i) /\ log[i].res = Ok

\* The element a successful Pow at entry i left on top.
PowTop(i) == log[i].st.stack[1]

\* The Pow at entry i is 10^2, however the operands are stored.
TenSquared(i) == DecEq(PowBase(i), Dec(10, 0)) /\ DecEq(PowExp(i), Dec(2, 0))

RECURSIVE DecPowBy(_, _)
DecPowBy(a, n) == IF n <= 0 THEN Dec(1, 0) ELSE DecMul(a, DecPowBy(a, n - 1))

PrecisionCall(i) == log[i].op.kind = "Precision" /\ Len(log[i - 1].st.stack) >= 1

\* p is an integer with 1 <= p <= 2^63 - 1.
ValidPrecision(p) ==
    /\ is_integer(p)
    /\ DecCmp(p, Dec(1, 0)) >= 0
    /\ BigBelowWide(FlushToInt(p), I64_MAX_DIGITS, I64_MAX_LEAD9, I64_MAX_D10)

\* C15: Precision on a stack whose top is p: when p is an integer with
\* 1 <= p <= 2^63 - 1 it returns Ok, removes p and sets the precision to p;
\* otherwise it returns InvalidArgument and the stack, p still on top, and the
\* precision are as before.
C15_PrecisionValidated ==
    \A i \in 2..Len(log) :
        PrecisionCall(i) =>
            IF ValidPrecision(log[i - 1].st.stack[1])
            THEN /\ log[i].res = Ok
                 /\ log[i].cur = log[i - 1].cur + 1
                 /\ log[i].st.stack = Tail(log[i - 1].st.stack)
                 /\ DecEq([u |-> log[i].st.precision, s |-> 0], log[i - 1].st.stack[1])
            ELSE /\ log[i].res.tag = "InvalidArgument"
                 /\ log[i].st = log[i - 1].st
                 /\ log[i].cur = log[i - 1].cur
                 /\ log[i].len = log[i - 1].len

C15_Witness ==
    /\ Len(log) >= 3
    /\ PrecisionCall(Len(log))
    /\ Last.res = Ok
    /\ Last.st.precision = [m |-> 1, e |-> 18]
    /\ Len(Last.st.stack) = 1

\* The precision q was set by a successful Precision call.
EstablishedByPrecision(q) ==
    \E i \in 2..Len(log) :
        /\ PrecisionCall(i)
        /\ log[i].res = Ok
        /\ log[i].st.precision = q

\* C16: in every state of the history the precision is the starting
\* precision, or an integer in 1..2^63-1 that a successful Precision call
\* set; in particular no operation makes it 0 or moves it above i64::MAX.
C16_PrecisionStartOrValidated ==
    \A k \in 1..Len(history) :
        \/ history[k].precision = log[1].st.precision
        \/ /\ BigSign(history[k].precision) > 0
           /\ BigBelowWide(history[k].precision, I64_MAX_DIGITS, I64_MAX_LEAD9, I64_MAX_D10)
           /\ EstablishedByPrecision(history[k].precision)

C16_Witness ==
    /\ BigIsZero(log[1].st.precision)
    /\ Len(history) >= 4
    /\ history[Len(history)].precision = [m |-> 1, e |-> 18]
    /\ \E k \in 1..Len(history) : history[k].precision = Big(2)

AbsDec(a) == [u |-> [m |-> Abs(a.u.m), e |-> a.u.e], s |-> a.s]

\* shown is stored cut to p fractional digits: its scale is p, it is no
\* further from zero than stored, on the same side, and less than 10^-p away.
TruncatedTo(shown, stored, p) ==
    /\ shown.s = p
    /\ DecCmp(AbsDec(shown), AbsDec(stored)) <= 0
    /\ DecCmp(AbsDec(DecSub(stored, shown)), Dec(1, p)) < 0
    /\ BigSign(shown.u) \in {0, BigSign(stored.u)}

\* The precision of log entry i, which fits a machine integer here.
PrecisionOf(i) == BigToInt(log[i].st.precision)

\* The current precision is one a successful Precision call set.
AfterPrecision ==
    \E i \in 2..Len(log) :
        /\ PrecisionCall(i)
        /\ log[i].res = Ok
        /\ \A j \in i..Len(log) : log[j].st.precision = log[i].st.precision

\* Push(1234); Push(2); Precision shows 1234, and Push(3); Divide after it
\* shows 411.33.
PrecisionExample ==
    (/\ Len(log) >= 4
     /\ log[1].st.precision = Big(DEFAULT_PRECISION)
     /\ log[2].op = OpPush(Dec(1234, 0))
     /\ log[3].op = OpPush(Dec(2, 0))
     /\ log[4].op.kind = "Precision")
        => /\ log[4].res = Ok
           /\ log[4].st.precision = Big(2)
           /\ log[4].snap = <<Dec(1234, 0)>>
           /\ (Len(log) = 6 /\ log[5].op = OpPush(Dec(3, 0)) /\ log[6].op.kind = "Divide")
                => log[6].snap = <<Dec(41133, 2)>>

\* C17, as stated: once a successful Precision has set the precision to p,
\* snapshot() shows every value whose scale exceeds p cut to exactly p
\* fractional digits and every other value unchanged; Push(1234); Push(2);
\* Precision shows 1234 and Push(3); Divide then shows 411.33.
C17_ShownTruncatedOrUnchanged ==
    /\ PrecisionExample
    /\ AfterPrecision =>
         \A k \in 1..Len(Last.st.stack) :
             IF Last.st.stack[k].s > PrecisionOf(Len(log))
             THEN TruncatedTo(Last.snap[k], Last.st.stack[k], PrecisionOf(Len(log)))
             ELSE Last.snap[k] = Last.st.stack[k]

\* C17, what the code does: the same, except that a value stored with a
\* negative scale is shown padded to scale p, equal in value but not in
\* representation.
C17_ShownTruncatedOrPadded ==
    /\ PrecisionExample
    /\ AfterPrecision =>
         \A k \in 1..Len(Last.st.stack) :
             IF Last.st.stack[k].s > PrecisionOf(Len(log))
             THEN TruncatedTo(Last.snap[k], Last.st.stack[k], PrecisionOf(Len(log)))
             ELSE IF Last.st.stack[k].s >= 0
             THEN Last.snap[k] = Last.st.stack[k]
             ELSE /\ Last.snap[k].s = PrecisionOf(Len(log))
                  /\ DecEq(Last.snap[k], Last.st.stack[k])

C17_Witness ==
    /\ Len(log) = 6
    /\ log[2].op = OpPush(Dec(1234, 0))
    /\ log[3].op = OpPush(Dec(2, 0))
    /\ log[4].op.kind = "Precision"
    /\ log[5].op = OpPush(Dec(3, 0))
    /\ log[6].op.kind = "Divide"
    /\ Last.st.stack[1].s > 2
    /\ Last.snap = <<Dec(41133, 2)>>

\* C18, as stated: snapshot() returns every stored value whose scale is at
\* most the precision, a negative scale included, with the same unscaled
\* integer and the same scale; a value whose scale is greater is returned
\* with the precision as its scale.
C18_FittingValuesShownAsStored ==
    \A k \in 1..Len(Last.st.stack) :
        IF Last.st.stack[k].s <= PrecisionOf(Len(log))
        THEN Last.snap[k] = Last.st.stack[k]
        ELSE Last.snap[k].s = PrecisionOf(Len(log))

\* C18, what the code does: a value stored with a negative scale s is
\* returned with the precision p as its scale and p - s zero digits appended
\* to its unscaled integer; values with 0 <= s <= p are returned as stored,
\* and values with s > p with scale p.
C18_NegativeScalePadded ==
    \A k \in 1..Len(Last.st.stack) :
        IF Last.st.stack[k].s < 0
        THEN /\ Last.snap[k].s = PrecisionOf(Len(log))
             /\ Last.snap[k].u = BigShift(Last.st.stack[k].u,
                                          PrecisionOf(Len(log)) - Last.st.stack[k].s)
             /\ Last.snap[k] # Last.st.stack[k]
        ELSE IF Last.st.stack[k].s <= PrecisionOf(Len(log))
        THEN Last.snap[k] = Last.st.stack[k]
        ELSE Last.snap[k].s = PrecisionOf(Len(log))

C18_Witness ==
    /\ Len(log) = 2
    /\ Last.st.precision = Big(DEFAULT_PRECISION)
    /\ Last.st.stack = <<Dec(1, -100)>>
    /\ Last.snap = <<[u |-> [m |-> 1, e |-> 112], s |-> 12]>>

\* C19, as stated: on a freshly constructed empty Stack, Push(v) returns Ok
\* and snapshot() is the one-element list [v].
C19_PushShowsValue ==
    (Len(log) >= 2 /\ log[2].op.kind = "Push")
        => /\ log[2].res = Ok
           /\ Len(log[2].snap) = 1
           /\ DecEq(log[2].snap[1], log[2].op.v)

\* C19, amended: on a freshly constructed empty Stack, Push(v) returns Ok and
\* stores v as it is; snapshot() is the one-element list holding a value
\* equal to v when the scale of v is at most the precision, and v cut to
\* precision fractional digits otherwise.
C19_PushShowsValueCut ==
    (Len(log) >= 2 /\ log[2].op.kind = "Push")
        => /\ log[2].res = Ok
           /\ log[2].st.stack = <<log[2].op.v>>
           /\ Len(log[2].snap) = 1
           /\ IF log[2].op.v.s > PrecisionOf(2)
              THEN TruncatedTo(log[2].snap[1], log[2].op.v, PrecisionOf(2))
              ELSE DecEq(log[2].snap[1], log[2].op.v)

C19_Witness ==
    /\ Len(log) = 2
    /\ log[2].op = OpPush(Dec(-125, 3))
    /\ Last.st.precision = Big(2)
    /\ Last.snap = <<Dec(-12, 2)>>

\* ------------------------------------------------------------------------
\* edit_top

EditTopCall == Called /\ Last'.op.kind = "EditTop" /\ Len(cur(Self).stack) >= 1

\* C20: edit_top() on a non-empty stack adds one history state equal to the
\* current one without its top element (same precision, same remaining
\* elements in order), returns the removed element and drops the redo branch;
\* the Stack it leaves is the one apply(Pop) would leave, and one Undo on it
\* succeeds and shows the state before the edit again.
C20_EditTopIsPop ==
    [][EditTopCall =>
          /\ Last'.ret = <<Head(cur(Self).stack)>>
          /\ cur(Self') = InstantStack(Tail(cur(Self).stack), cur(Self).precision)
          /\ current' = current + 1
          /\ Len(history') = current + 2
          /\ SubSeq(history', 1, current + 1) = SubSeq(history, 1, current + 1)
          /\ apply(Self, Op("Pop")).res = Ok
          /\ Self' = apply(Self, Op("Pop")).u
          /\ apply(Self', Op("Undo")).res = Ok
          /\ cur(apply(Self', Op("Undo")).u) = cur(Self)
          /\ snapshot(apply(Self', Op("Undo")).u) = snapshot(Self)]_vars

\* edit_top took the element off a stack while a redo branch existed, and
\* the next call undid it.
C20_Witness ==
    /\ Len(log) >= 4
    /\ log[Len(log) - 1].op.kind = "EditTop"
    /\ log[Len(log) - 1].ret # <<>>
    /\ Len(log[Len(log) - 2].st.stack) >= 1
    /\ log[Len(log) - 2].len > log[Len(log) - 2].cur + 1
    /\ log[Len(log) - 1].len = log[Len(log) - 1].cur + 1
    /\ Last.op.kind = "Undo"
    /\ Last.res = Ok
    /\ Last.st = log[Len(log) - 2].st

\* ------------------------------------------------------------------------
\* Rotate

\* The stack s with its two top elements exchanged.
TopTwoSwapped(s) == <<s[2], s[1]>> \o SubSeq(s, 3, Len(s))

\* C21: apply(Rotate) on a stack of at least two elements succeeds, exchanges
\* the two top elements and leaves the elements beneath and the precision as
\* they were; Push(1); Push(2); Rotate shows [1, 2]; and after a second
\* Rotate the current state is the one before the first.
C21_RotateSwapsTopTwo ==
    /\ \A i \in 2..Len(log) :
          (log[i].op.kind = "Rotate" /\ Len(log[i - 1].st.stack) >= 2) =>
              /\ log[i].res = Ok
              /\ log[i].st.stack = TopTwoSwapped(log[i - 1].st.stack)
              /\ log[i].st.precision = log[i - 1].st.precision
              /\ (i >= 3 /\ log[i - 1].op.kind = "Rotate"
                         /\ Len(log[i - 2].st.stack) >= 2)
                     => log[i].st = log[i - 2].st
    /\ (/\ Len(log) >= 4
        /\ log[2].op = OpPush(Dec(1, 0))
        /\ log[3].op = OpPush(Dec(2, 0))
        /\ log[4].op.kind = "Rotate")
           => log[4].snap = <<Dec(1, 0), Dec(2, 0)>>

\* Push(1); Push(2); Rotate; Rotate has been run.
C21_Witness ==
    /\ Len(log) = 5
    /\ log[2].op = OpPush(Dec(1, 0))
    /\ log[3].op = OpPush(Dec(2, 0))
    /\ log[4].op.kind = "Rotate"
    /\ log[4].snap = <<Dec(1, 0), Dec(2, 0)>>
    /\ Last.op.kind = "Rotate"
    /\ Last.res = Ok
    /\ Last.st = log[3].st

\* ------------------------------------------------------------------------
\* Missing operands

\* Operands each operation needs.
TwoOperandKinds == {"Add", "Subtract", "Multiply", "Divide", "Modulo", "Pow", "Rotate"}

OneOperandKinds == {"Sqrt", "Duplicate", "Pop", "Precision"}

Needs(kind) == IF kind \in TwoOperandKinds THEN 2 ELSE 1

\* The step is apply of an operation on a stack too short for it.
ShortCall ==
    /\ Called
    /\ Last'.op.kind \in TwoOperandKinds \cup OneOperandKinds
    /\ Len(cur(Self).stack) < Needs(Last'.op.kind)

\* C22: an operation applied to a stack with fewer elements than it needs
\* returns MissingValue(k), k being 2 for Add, Subtract, Multiply, Divide,
\* Modulo, Pow and Rotate and 1 for Sqrt, Duplicate, Pop and Precision, and
\* the history, the current index and the snapshot stay as they were; this
\* is so whatever the single element is, zero or not (Divide, Pow).
C22_TooFewOperands ==
    [][ShortCall =>
          /\ Last'.res = MissingValue(Needs(Last'.op.kind))
          /\ history' = history
          /\ current' = current
          /\ snapshot(Self') = snapshot(Self)]_vars

\* Divide was applied to a stack whose only element is zero, after Pow was
\* applied to it.
C22_Witness ==
    /\ Len(log) = 4
    /\ log[2].op = OpPush(Dec(0, 0))
    /\ log[3].op.kind = "Pow"
    /\ log[3].res = MissingValue(2)
    /\ Last.op.kind = "Divide"
    /\ Last.res = MissingValue(2)
    /\ Last.st.stack = <<Dec(0, 0)>>

\* ------------------------------------------------------------------------
\* prep_and_pop

\* The instantiations of prep_and_pop<C> that apply_on_stack makes.
PopUses ==
    {[C |-> 2, f |-> Check("always")], [C |-> 1, f |-> Check("always")],
     [C |-> 2, f |-> Check("Divide")], [C |-> 1, f |-> Check("Sqrt")],
     [C |-> 1, f |-> Check("Precision")], [C |-> 2, f |-> PowClosure]}

\* The top C elements of a stack, the deepest of them first, the top last.
DeepestFirst(stack, C) == [i \in 1..C |-> stack[C + 1 - i]]

\* What prep_and_pop<C> with transform f must make of s: r is what it made.
PopIsAtomic(s, C, f, r) ==
    IF Len(s.stack) < C THEN r.res = MissingValue(C) /\ r.s = s
    ELSE IF RunTransform(f, DeepestFirst(s.stack, C)).res.tag # "Ok"
    THEN /\ r.res = RunTransform(f, DeepestFirst(s.stack, C)).res
         /\ r.s = s
    ELSE /\ r.res = Ok
         /\ r.out = RunTransform(f, DeepestFirst(s.stack, C)).out
         /\ f.kind = "check" => r.out = DeepestFirst(s.stack, C)
         /\ r.s.stack = SubSeq(s.stack, C + 1, Len(s.stack))
         /\ r.s.precision = s.precision

\* C30: prep_and_pop<C> gives its transform the top C elements deepest
\* first, the top last; when the depth check or the transform fails the
\* InstantStack is left as it was, element for element; when the transform
\* succeeds exactly the top C elements are gone and the elements beneath
\* keep their order.  Stated of every current state the program reaches and
\* of every transform apply_on_stack uses.
C30_PrepAndPopIsAtomic ==
    \A x \in PopUses :
        PopIsAtomic(cur(Self), x.C, x.f, prep_and_pop(cur(Self), x.C, x.f))

\* Divide has just been refused by its validator on a stack of two elements,
\* which are both still there.
C30_Witness ==
    /\ Len(log) = 4
    /\ Last.op.kind = "Divide"
    /\ Last.res.tag = "InvalidArgument"
    /\ Len(Last.st.stack) = 2
    /\ Last.st = log[3].st
    /\ prep_and_pop(cur(Self), 2, Check("always")).s.stack = <<>>

\* ------------------------------------------------------------------------
\* Loading and saving

\* The strings of LoadTexts that are numbers, and the decimal each stands
\* for.
ExpectedNumbers ==
    {[text |-> <<"1", "2">>, v |-> Dec(12, 0)],
     [text |-> <<"1", ".", "5", "0">>, v |-> Dec(150, 2)],
     [text |-> <<"-", "3">>, v |-> Dec(-3, 0)],
     [text |-> <<"1", "e", "2">>, v |-> Dec(1, -2)],
     [text |-> <<"0", ".", "5">>, v |-> Dec(5, 1)]}

Parseable(text) == \E x \in ExpectedNumbers : x.text = text

ExpectedValue(text) == (CHOOSE x \in ExpectedNumbers : x.text = text).v

\* The step is the making of a Stack from a State of strings of LoadTexts.
LoadCall ==
    /\ Called
    /\ Last'.op.kind = "try_from"
    /\ \A i \in 1..Len(state.stack) : state.stack[i] \in LoadTexts

\* C23: making a Stack from a State either parses every string and gives a
\* Stack of history length 1 whose values are those decimals in the order of
\* the list (the first on top), or, when one string is not a number, fails
\* and gives no Stack, whatever the other strings are.
C23_LoadIsAllOrNothing ==
    [][LoadCall =>
          IF \A i \in 1..Len(state.stack) : Parseable(state.stack[i])
          THEN /\ Last'.res = Ok
               /\ Len(history') = 1
               /\ current' = 0
               /\ history'[1].stack =
                      [i \in 1..Len(state.stack) |-> ExpectedValue(state.stack[i])]
          ELSE /\ Last'.res = ParseError
               /\ history' = <<>>]_vars

\* A State of two numbers was loaded, the second of them 1e2.
C23_Witness ==
    /\ Len(log) = 2
    /\ Last.op.kind = "try_from"
    /\ Last.res = Ok
    /\ Len(state.stack) = 2
    /\ state.stack[2] = <<"1", "e", "2">>
    /\ Last.st.stack[2] = Dec(1, -2)

\* A State whose first string is a number and whose second is not was
\* refused.
C23_WitnessRefused ==
    /\ Len(log) = 2
    /\ Last.op.kind = "try_from"
    /\ Last.res = ParseError
    /\ state.stack = <<<<"1", "2">>, <<"x">>>>
    /\ history = <<>>

\* Entry i records a load of the State that entry i - 1 saved.
Reloaded(i) ==
    /\ i >= 3
    /\ log[i].op.kind = "try_from"
    /\ log[i - 1].op.kind = "Save"

\* C24 as stated: the values loaded from a saved State are the saved values,
\* each with the same unscaled integer and the same scale.
C24_RoundTripKeepsScale ==
    \A i \in 1..Len(log) :
        Reloaded(i) => log[i].res = Ok /\ log[i].st.stack = log[i - 1].st.stack

\* C24, amended: the values loaded from a saved State are as many as the
\* saved ones, in the same order, each equal in value to the saved one, and
\* with the same unscaled integer and scale when the saved scale is not
\* negative.
C24_RoundTripKeepsValue ==
    \A i \in 1..Len(log) :
        Reloaded(i) =>
            /\ log[i].res = Ok
            /\ Len(log[i].st.stack) = Len(log[i - 1].st.stack)
            /\ \A j \in 1..Len(log[i].st.stack) :
                  /\ DecEq(log[i].st.stack[j], log[i - 1].st.stack[j])
                  /\ log[i - 1].st.stack[j].s >= 0
                        => log[i].st.stack[j] = log[i - 1].st.stack[j]

\* 1.50 was pushed above a loaded value, saved and loaded again with its two
\* fractional digits.
C24_Witness ==
    /\ Len(log) = 5
    /\ Reloaded(5)
    /\ Len(Last.st.stack) = 2
    /\ log[4].st.stack[1] = Dec(150, 2)
    /\ Last.st.stack[1] = Dec(150, 2)
    /\ state.stack[1] = <<"1", ".", "5", "0">>

\* ------------------------------------------------------------------------
\* format_number

\* The value on the screen is drawn.
Drawn == view.line # <<>>

\* The normalized plain decimal string of the value on the screen.
Repr == to_plain_string(normalized(view.n))

\* What the Line shows.
Text == LineText(view.line)

NotSpace(c) == c # " "

\* 1 if the string starts with a sign, else 0.
SignLen(repr) == IF repr # <<>> /\ repr[1] = "-" THEN 1 ELSE 0

HasFraction(repr) == \E i \in 1..Len(repr) : repr[i] = "."

\* The length of sign, integer digits and dot together (the whole string
\* when it has no dot).
HeadLen(repr) ==
    IF HasFraction(repr) THEN CHOOSE i \in 1..Len(repr) : repr[i] = "." ELSE Len(repr)

\* The number of integer digits.
IntDigits(repr) ==
    HeadLen(repr) - SignLen(repr) - (IF HasFraction(repr) THEN 1 ELSE 0)

\* out is repr with one space before every integer digit that has a positive
\* multiple of three integer digits from itself to the end of the integer
\* part, and nowhere else.
IsGrouping(out, repr) ==
    /\ SelectSeq(out, NotSpace) = repr
    /\ Len(out) = Len(repr) + ((IntDigits(repr) - 1) \div 3)
    /\ \A k \in 1..Len(out) :
          out[k] = " " =>
              /\ k > SignLen(repr) + 1
              /\ k < Len(out)
              /\ out[k + 1] # " "
              /\ Len(SelectSeq(SubSeq(out, 1, k), NotSpace)) < SignLen(repr) + IntDigits(repr)
              /\ (SignLen(repr) + IntDigits(repr)
                     - Len(SelectSeq(SubSeq(out, 1, k), NotSpace))) % 3 = 0

\* C25: when the normalized plain string is no longer than the width,
\* format_number returns it unchanged if grouping is off; if grouping is on
\* it returns the string with a space every three integer digits counted
\* from the right (sign and fraction apart) when that still fits the width,
\* and the ungrouped string otherwise.
C25_FitsPlainOrGrouped ==
    (Drawn /\ Len(Repr) <= view.width) =>
        /\ IsGrouping(add_separators(Repr), Repr)
        /\ Text = IF view.separator /\ Len(add_separators(Repr)) <= view.width
                  THEN add_separators(Repr)
                  ELSE Repr

\* -12345.6789 is drawn grouped in a column of 15.
C25_Witness ==
    /\ Drawn
    /\ view.n = Num(TRUE, NatString(123456789), 4)
    /\ view.width = 15
    /\ view.separator
    /\ Text = <<"-", "1", "2", " ", "3", "4", "5", ".", "6", "7", "8", "9">>

\* 123456789 is drawn without separators in a column of 10, where the
\* grouped form does not fit.
C25_WitnessUnderPressure ==
    /\ Drawn
    /\ view.n = Num(FALSE, NatString(123456789), 0)
    /\ view.width = 10
    /\ view.separator
    /\ Text = NatString(123456789)

\* The case of the simple truncation.
TruncationCase ==
    /\ Len(Repr) > view.width
    /\ HasFraction(Repr)
    /\ view.width >= HeadLen(Repr) + 1

\* C26: when the string is longer than the width, has a fractional part and
\* the width is at least the length of sign, integer digits and dot plus
\* one, format_number returns the first width - 1 characters of the string
\* followed by one '~', width characters in all; and a Line of a cut string
\* and a marker is returned in these cases only.
C26_FractionTruncated ==
    Drawn =>
        /\ TruncationCase =>
              /\ view.line = <<SubSeq(Repr, 1, view.width - 1), <<"~">>>>
              /\ Len(Text) = view.width
              /\ SubSeq(Text, 1, HeadLen(Repr)) = SubSeq(Repr, 1, HeadLen(Repr))
        /\ ~TruncationCase => Len(view.line) # 2

\* 10.12345678 is drawn as 10.~ in a column of 4.
C26_Witness ==
    /\ Drawn
    /\ view.n = Num(FALSE, NatString(1012345678), 8)
    /\ view.width = 4
    /\ Text = <<"1", "0", ".", "~">>

\* The case of the split layout.
SplitCase == Len(Repr) > view.width /\ ~TruncationCase

\* The "~magnitude~" token of the value on the screen.
MagnitudeToken == <<"~">> \o NatString(IntDigits(Repr)) \o <<"~">>

\* The parts to fill in the split layout, and the budget for them.
SplitParts == IF HasFraction(Repr) THEN 3 ELSE 2

SplitBudget ==
    view.width - SignLen(Repr) - (IF HasFraction(Repr) THEN 1 ELSE 0) - Len(MagnitudeToken)

\* C27: in the split layout format_number returns the single "~" exactly
\* when the budget (the width less the sign, the dot and the magnitude
\* token) is smaller than the number of parts (3 with a fractional part, 2
\* without); and format_number panics for no value and no width, 0 included.
C27_MarkerWhenBudgetTooSmall ==
    Drawn =>
        /\ view.line # LinePanic
        /\ SplitCase => (view.line = LineMarker <=> SplitBudget < SplitParts)

\* -123456789098 is drawn as ~ in a column of 6, and so is a value in a
\* column of width 0.
C27_Witness ==
    /\ Drawn
    /\ view.n = Num(TRUE, NatString(123456789) \o <<"0", "9", "8">>, 0)
    /\ view.width = 6
    /\ view.line = LineMarker

C27_WitnessWidthZero ==
    /\ Drawn
    /\ view.width = 0
    /\ HasFraction(Repr)
    /\ view.line = LineMarker

\* The split layout with room for every part.
SplitDrawn == Drawn /\ SplitCase /\ SplitBudget >= SplitParts

CeilShare == (SplitBudget + SplitParts - 1) \div SplitParts

FloorShare == SplitBudget \div SplitParts

\* The digits of the leading segment, and of the trailing segment before and
\* after its dot.
LeadDigits == Len(view.line[1]) - SignLen(Repr)

TrailIntDigits ==
    IF HasFraction(Repr) THEN HeadLen(view.line[3]) - 1 ELSE Len(view.line[3])

TrailFractionDigits == Len(view.line[3]) - HeadLen(view.line[3])

\* C28 as stated: the leading segment has ceil(budget / parts) digits and
\* each other segment floor(budget / parts).
C28_CeilingAndFloorShares ==
    SplitDrawn =>
        /\ Len(view.line) = 3
        /\ LeadDigits = CeilShare
        /\ TrailIntDigits = FloorShare
        /\ HasFraction(Repr) => TrailFractionDigits = FloorShare

\* C28, amended: the leading segment has floor(budget / parts) digits plus
\* the whole remainder budget mod parts (the ceiling when there are two
\* parts), the trailing integer segment floor(budget / parts), and the
\* fractional segment floor(budget / parts) or all the fractional digits
\* there are, if these are fewer.
C28_RemainderToLeadingSegment ==
    SplitDrawn =>
        /\ Len(view.line) = 3
        /\ LeadDigits = FloorShare + (SplitBudget % SplitParts)
        /\ SplitParts = 2 => LeadDigits = CeilShare
        /\ TrailIntDigits = FloorShare
        /\ HasFraction(Repr) =>
              TrailFractionDigits = Min(FloorShare, Len(Repr) - HeadLen(Repr))

\* 12345678909876543.21 is drawn in a column of 18 with a budget of 13 for
\* three parts: 5 leading digits, 4 trailing ones and its 2 fractional ones.
C28_Witness ==
    /\ SplitDrawn
    /\ view.width = 18
    /\ SplitBudget = 13
    /\ Text = NatString(12345) \o <<"~", "1", "7", "~">> \o NatString(6543)
                 \o <<".", "2", "1">>

\* C29: for an integer whose plain string is longer than the width, when
\* the split layout has room, the output has exactly width characters and is
\* [sign][leading digits]~D~[trailing digits], the leading part a prefix and
\* the trailing part a suffix of the plain string, D the number of integer
\* digits without the sign: 123456789098 in 10 columns is 123~12~098 and
\* 10^15 in 14 columns is 10000~16~00000.
C29_IntegerSplitLayout ==
    (SplitDrawn /\ ~HasFraction(Repr)) =>
        /\ Len(Text) = view.width
        /\ Len(view.line) = 3
        /\ LeadDigits >= 1
        /\ Len(view.line[3]) >= 1
        /\ view.line[1] = SubSeq(Repr, 1, Len(view.line[1]))
        /\ view.line[2] = <<"~">> \o NatString(Len(Repr) - SignLen(Repr)) \o <<"~">>
        /\ view.line[3] = SubSeq(Repr, Len(Repr) - Len(view.line[3]) + 1, Len(Repr))
        /\ (view.n = Num(FALSE, NatString(123456789) \o <<"0", "9", "8">>, 0)
               /\ view.width = 10)
              => Text = <<"1", "2", "3", "~", "1", "2", "~", "0", "9", "8">>
        /\ (view.n = Num(FALSE, <<"1">>, -15) /\ view.width = 14)
              => Text = <<"1", "0", "0", "0", "0", "~", "1", "6", "~",
                          "0", "0", "0", "0", "0">>

\* -123456789098 is drawn as -12~12~8 in a column of 8.
C29_Witness ==
    /\ SplitDrawn
    /\ view.n = Num(TRUE, NatString(123456789) \o <<"0", "9", "8">>, 0)
    /\ view.width = 8
    /\ Text = <<"-", "1", "2", "~", "1", "2", "~", "8">>

\* ------------------------------------------------------------------------
\* edit_top on an empty stack

\* The step is a call of edit_top.
AnyEditTopCall == Called /\ Last'.op.kind = "EditTop"

\* C31: edit_top() always adds exactly one history entry and drops the redo
\* branch; on an empty current stack it returns None, the entry added equals
\* the current state, and an Undo right after it succeeds and shows the same
\* stack as before it.
C31_EditTopAlwaysAdvances ==
    [][AnyEditTopCall =>
          /\ Last'.res = Ok
          /\ current' = current + 1
          /\ Len(history') = current + 2
          /\ SubSeq(history', 1, current + 1) = SubSeq(history, 1, current + 1)
          /\ Len(cur(Self).stack) = 0 =>
                /\ Last'.ret = <<>>
                /\ cur(Self') = cur(Self)
                /\ apply(Self', Op("Undo")).res = Ok
                /\ apply(Self', Op("Undo")).u.current = current
                /\ snapshot(apply(Self', Op("Undo")).u) = snapshot(Self')
                /\ snapshot(Self') = snapshot(Self)]_vars

\* edit_top was called on an empty stack while a redo branch existed, and the
\* Undo after it succeeded without changing the stack shown.
C31_Witness ==
    /\ Len(log) >= 4
    /\ log[Len(log) - 1].op.kind = "EditTop"
    /\ log[Len(log) - 1].ret = <<>>
    /\ log[Len(log) - 2].st.stack = <<>>
    /\ log[Len(log) - 2].len > log[Len(log) - 2].cur + 1
    /\ log[Len(log) - 1].len = log[Len(log) - 1].cur + 1
    /\ log[Len(log) - 1].cur = log[Len(log) - 2].cur + 1
    /\ Last.op.kind = "Undo"
    /\ Last.res = Ok
    /\ Last.snap = log[Len(log) - 1].snap

\* ------------------------------------------------------------------------
\* Past states

RECURSIVE UndoAll(_)
\* The Undoable after Undo has been applied until it fails.
UndoAll(u) == IF undo(u).ret THEN UndoAll(undo(u).u) ELSE u

\* C32: no call (apply of any Op, edit_top) changes a history entry at an
\* index up to the current index it started from; the first entry is always
\* the state the Stack was constructed with, and Undo repeated until it fails
\* ends in that state.
C32_PastStatesImmutable ==
    [][Called =>
          /\ SubSeq(history', 1, current + 1) = SubSeq(history, 1, current + 1)
          /\ history'[1] = log[1].st
          /\ snapshot(Self) = Last.snap /\ cur(Self) = Last.st
          /\ UndoAll(Self').current = 0
          /\ cur(UndoAll(Self')) = log[1].st]_vars

\* After an Undo, a successful call replaced the redo branch; the entries up
\* to the index it started from are the ones recorded before it, and the
\* first is the constructed state.
C32_Witness ==
    /\ Len(log) = 4
    /\ log[2].res = Ok /\ log[2].op.kind = "Push"
    /\ log[3].op.kind = "Undo" /\ log[3].res = Ok
    /\ Last.op.kind \in {"Push", "EditTop"}
    /\ Last.res = Ok
    /\ Last.cur = 1
    /\ Last.len = 2
    /\ history[1] = log[1].st
    /\ history[2] # log[2].st

\* ------------------------------------------------------------------------
\* Frame of the operations

\* Elements the operation consumes.
Consumed(kind) == IF kind = "Push" THEN 0 ELSE Needs(kind)

\* Change of the stack length the operation makes.
LengthChange(kind) ==
    CASE kind \in {"Push", "Duplicate"} -> 1
      [] kind \in {"Sqrt", "Rotate"} -> 0
      [] OTHER -> -1

\* The step is a successful apply of an operation other than Undo and Redo.
SuccessfulOp ==
    /\ Called
    /\ Last'.op.kind \in {"Push"} \cup TwoOperandKinds \cup OneOperandKinds
    /\ Last'.res = Ok

\* The elements of stack s beneath its k top elements.
Beneath(s, k) == SubSeq(s, k + 1, Len(s))

\* C33: a successful operation other than Undo and Redo leaves the elements
\* beneath its operands as they were, in order; only Precision changes the
\* precision; the length grows by 1 for Push and Duplicate (the two top
\* elements after Duplicate are the former top), shrinks by 1 for Add,
\* Subtract, Multiply, Divide, Modulo, Pow, Pop and Precision, and stays for
\* Sqrt and Rotate.
C33_OperationFrame ==
    [][SuccessfulOp =>
          LET kind == Last'.op.kind
              old == cur(Self).stack
              fresh == cur(Self').stack
          IN  /\ Len(fresh) = Len(old) + LengthChange(kind)
              /\ Beneath(fresh, Consumed(kind) + LengthChange(kind))
                     = Beneath(old, Consumed(kind))
              /\ kind # "Precision" => precision(Self') = precision(Self)
              /\ kind = "Duplicate" => fresh[1] = old[1] /\ fresh[2] = old[1]
              /\ kind = "Push" => fresh[1] = Last'.op.v]_vars

\* A Divide on a stack of three elements succeeded: the third element is now
\* the second.
C33_Witness ==
    /\ Len(log) = 2
    /\ Last.op.kind = "Divide"
    /\ Last.res = Ok
    /\ Len(log[1].st.stack) = 3
    /\ Last.st.stack = <<DecDiv(Dec(-3, 0), Dec(2, 0)), Dec(125, 3)>>
    /\ log[1].st.stack = <<Dec(2, 0), Dec(-3, 0), Dec(125, 3)>>

\* ------------------------------------------------------------------------
\* The size of what Pow produces

\* A natural number as its digits in base 2^28, the lowest first.
RECURSIVE Limbs(_)
Limbs(n) == IF n = 0 THEN <<>> ELSE <<n % 268435456>> \o Limbs(n \div 268435456)

\* The digits of 5 * l from digit i on.
RECURSIVE TimesFive(_, _, _)
TimesFive(l, i, carry) ==
    IF i > Len(l) THEN Limbs(carry)
    ELSE <<(l[i] * 5 + carry) % 268435456>>
             \o TimesFive(l, i + 1, (l[i] * 5 + carry) \div 268435456)

\* The digits of l * 5^e, by halves of e.
RECURSIVE TimesPow5(_, _)
TimesPow5(l, e) ==
    IF Len(l) = 0 \/ e = 0 THEN l
    ELSE IF e = 1 THEN TimesFive(l, 1, 0)
    ELSE TimesPow5(TimesPow5(l, e \div 2), e - (e \div 2))

\* Number of bits of the number with these digits.
LimbBits(l) == IF l = <<>> THEN 0 ELSE 28 * (Len(l) - 1) + BitLength(l[Len(l)])

\* Number of bits of |a|, a big integer m * 10^e: those of |m| * 5^e, and e
\* more.
BigBitLength(a) ==
    IF a.m = 0 THEN 0 ELSE LimbBits(TimesPow5(Limbs(Abs(a.m)), a.e)) + a.e

\* bit_length(|a|) * b for the operands of the Pow at entry i.
BitBudget(i) ==
    BigMul(Big(BitLength(BigToInt(FlushToInt(PowBase(i))))), FlushToInt(PowExp(i)))

\* C34: the value a successful Pow produces has at most 1024 bits:
\* bit_length(|a^b|) <= bit_length(|a|) * b <= 1024; a Pow on integers with
\* bit_length(|a|) * b > 1024 is refused by the guard and computes nothing.
C34_PowResultWithinCap ==
    \A i \in 2..Len(log) :
        /\ PowDone(i) =>
              /\ PowTop(i).s = 0
              /\ BigCmp(BitBudget(i), Big(MAX_BIT_COUNT)) <= 0
              /\ BigBitLength(PowTop(i).u) <= BigToInt(BitBudget(i))
              /\ BigBitLength(PowTop(i).u) <= MAX_BIT_COUNT
        /\ (/\ PowCall(i)
            /\ IsPositiveInteger(PowExp(i))
            /\ is_integer(PowBase(i))
            /\ ExceedsBitCap(PowBase(i), PowExp(i))) =>
              /\ PowRejected(i)
              /\ log[i].snap = log[i - 1].snap

\* 10^256 was computed: bit_length(10) * 256 is 1024, and the result has 851
\* bits.
C34_Witness ==
    /\ Len(log) = 2
    /\ PowDone(2)
    /\ PowBase(2) = Dec(10, 0)
    /\ PowExp(2) = Dec(256, 0)
    /\ BitBudget(2) = Big(1024)
    /\ BigBitLength(PowTop(2).u) = 851

\* ------------------------------------------------------------------------
\* The precision and Undo

\* Entry i records a successful Precision and entry i + 1 an Undo.
PrecisionThenUndo(i) ==
    /\ PrecisionCall(i)
    /\ log[i].res = Ok
    /\ log[i + 1].op.kind = "Undo"

\* C35: the precision is part of the undoable state.  An Undo right after a
\* successful Precision succeeds and restores the precision and the stack of
\* before it, the popped value on top; a Redo after that succeeds and
\* restores the new precision; precision() is the precision of the current
\* state.
C35_PrecisionIsUndoable ==
    /\ precision(Self) = Last.st.precision
    /\ \A i \in 2..(Len(log) - 1) :
          PrecisionThenUndo(i) =>
              /\ log[i + 1].res = Ok
              /\ log[i + 1].st = log[i - 1].st
              /\ log[i].st.precision = FlushToInt(Head(log[i + 1].st.stack))
              /\ i + 1 = Len(log) => precision(Self) = log[i - 1].st.precision
              /\ (i + 2 <= Len(log) /\ log[i + 2].op.kind = "Redo") =>
                    /\ log[i + 2].res = Ok
                    /\ log[i + 2].st = log[i].st
                    /\ i + 2 = Len(log) => precision(Self) = log[i].st.precision

\* A Precision changed the precision, an Undo brought the old one back and a
\* Redo the new one.
C35_Witness ==
    /\ Len(log) = 5
    /\ PrecisionThenUndo(3)
    /\ log[3].st.precision # log[2].st.precision
    /\ log[4].st.precision = log[2].st.precision
    /\ Last.op.kind = "Redo"
    /\ Last.res = Ok
    /\ precision(Self) = log[3].st.precision

\* ------------------------------------------------------------------------
\* snapshot() is a projection

\* The value v needs no more fractional digits than the precision p.
FitsPrecision(v, p) == BigCmp(Big(v.s), p) <= 0

\* What entry i recorded: elements k of the stored stack and of the snapshot.
StoredAt(i, k) == log[i].st.stack[k]

ShownAt(i, k) == log[i].snap[k]

\* C36: snapshot() never writes its clipping back.  The current state is the
\* one the last call left, whatever snapshots were taken; Push and Precision
\* leave the stored values beneath as they are, full scale included; Divide
\* works on the stored operands; and whenever the precision is at least the
\* scale of a stored value, snapshot() shows that value with all its stored
\* digits, also after the precision was lower in between.
C36_SnapshotNotWrittenBack ==
    /\ cur(Self) = Last.st
    /\ snapshot(Self) = Last.snap
    /\ \A i \in 2..Len(log) :
          LET prev == log[i - 1].st.stack
              kind == log[i].op.kind
          IN  /\ (kind = "Precision" /\ log[i].res = Ok) =>
                    log[i].st.stack = Tail(prev)
              /\ kind = "Push" => log[i].st.stack = <<log[i].op.v>> \o prev
              /\ (kind = "Divide" /\ log[i].res = Ok) =>
                    log[i].st.stack
                        = <<DecDiv(prev[2], prev[1])>> \o SubSeq(prev, 3, Len(prev))
              /\ \A k \in 1..Len(log[i].st.stack) :
                    FitsPrecision(StoredAt(i, k), log[i].st.precision) =>
                        /\ DecEq(ShownAt(i, k), StoredAt(i, k))
                        /\ StoredAt(i, k).s >= 0 => ShownAt(i, k) = StoredAt(i, k)

\* -0.125 was pushed, the precision lowered to 2 (shown: -0.12) and raised to
\* 3: the value is shown with its three digits again.
C36_Witness ==
    /\ Len(log) = 6
    /\ log[2].op = OpPush(Dec(-125, 3))
    /\ log[4].op.kind = "Precision" /\ log[4].res = Ok
    /\ log[4].st.precision = Big(2)
    /\ log[4].snap = <<Dec(-12, 2)>>
    /\ log[4].st.stack = <<Dec(-125, 3)>>
    /\ Last.op.kind = "Precision" /\ Last.res = Ok
    /\ Last.st.precision = Big(3)
    /\ Last.snap = <<Dec(-125, 3)>>

\* A quotient was computed from a stored operand that the snapshot showed
\* clipped.
C36_WitnessArithmetic ==
    /\ Len(log) >= 3
    /\ Last.op.kind = "Divide" /\ Last.res = Ok
    /\ log[Len(log) - 1].snap[2] # log[Len(log) - 1].st.stack[2]
    /\ log[Len(log) - 1].st.stack[2] = Dec(-125, 3)
    /\ log[Len(log) - 1].st.stack[1] = Dec(2, 0)
    /\ Last.st.stack[1] = DecDiv(Dec(-125, 3), Dec(2, 0))

\* ------------------------------------------------------------------------
\* format_number and the stored representation

\* The digits without leading zeros (empty for zero).
RECURSIVE Significant(_)
Significant(ds) ==
    IF ds = <<>> THEN <<>>
    ELSE IF Head(ds) = "0" THEN Significant(Tail(ds))
    ELSE ds

\* The digits of the unscaled integer a would have at scale s >= a.scale.
DigitsAtScale(a, s) == Significant(a.digits \o Zeros(s - a.scale))

\* a and b are the same number, however they are stored.
SameNumber(a, b) ==
    /\ DigitsAtScale(a, Max(a.scale, b.scale)) = DigitsAtScale(b, Max(a.scale, b.scale))
    /\ Significant(a.digits) # <<>> => a.neg = b.neg

\* C37: format_number depends on the value only: a decimal that is the same
\* number as the one drawn, stored with another unscaled integer and scale,
\* gives the same Line at the same width and grouping flag.
C37_SameNumberSameLine ==
    Drawn =>
        \A m \in FmtVals :
            SameNumber(m, view.n) =>
                format_number(m, view.width, view.separator) = view.line

\* 0.000100000 was drawn as 0.0001 is.
C37_Witness ==
    /\ Drawn
    /\ view.n = Num(FALSE, <<"1">> \o Zeros(5), 9)
    /\ SameNumber(Num(FALSE, <<"1">>, 4), view.n)
    /\ Num(FALSE, <<"1">>, 4) # view.n
    /\ view.width = 10
    /\ Text = <<"0", ".", "0", "0", "0", "1">>
    /\ format_number(Num(FALSE, <<"1">>, 4), 10, view.separator) = view.line

\* ------------------------------------------------------------------------
\* The text fits its column

\* Where the trailing segment of the split layout starts in the string.
TrailStart ==
    IF HasFraction(Repr) THEN HeadLen(Repr) - TrailIntDigits
    ELSE Len(Repr) - TrailIntDigits + 1

\* C38: in a column of width >= 1 the text format_number returns has at most
\* width characters, whichever layout is used; in the split layout the
\* leading segment is a prefix of the string and the trailing segment a part
\* of it that starts after the end of the leading one.
C38_TextWithinWidth ==
    Drawn =>
        /\ view.width >= 1 => view.line # LinePanic /\ Len(Text) <= view.width
        /\ SplitDrawn =>
              /\ view.line[1] = SubSeq(Repr, 1, Len(view.line[1]))
              /\ view.line[3]
                     = SubSeq(Repr, TrailStart, TrailStart + Len(view.line[3]) - 1)
              /\ TrailStart > Len(view.line[1])
              /\ LeadDigits + TrailIntDigits <= IntDigits(Repr)

\* 12345678909876543.21 in a column of 18: 12345~17~6543.21, the leading
\* segment ending at the 5th character and the trailing one starting at the
\* 14th.
C38_Witness ==
    /\ SplitDrawn
    /\ view.n = Num(FALSE, NatString(123456789) \o <<"0">> \o NatString(987654321), 2)
    /\ view.width = 18
    /\ Len(Text) = 16
    /\ Len(view.line[1]) = 5
    /\ TrailStart = 14
    /\ view.line[3] = <<"6", "5", "4", "3", ".", "2", "1">>

\* The step handled a key of App::ops while the input held some text.
OperatorKeyOnInput == budget' = budget - 1 /\ app'.key \in DOMAIN ops /\ app.input # <<>>

\* The calls the step made on the Stack, in order.
NewCalls == Len(log') - Len(log)

NewCall(i) == log'[Len(log) + i]

\* The first call of the step is Push(v), committed as one history entry on
\* top of the state the key found, and the input is empty after the step.
PushCommitted(v) ==
    /\ NewCalls >= 1
    /\ NewCall(1).op = OpPush(v)
    /\ NewCall(1).res = Ok
    /\ NewCall(1).cur = current + 1
    /\ NewCall(1).len = current + 2
    /\ NewCall(1).st = push_front(cur(Self), v)
    /\ app'.input = <<>>

\* The pushed state is the current one after the step.
PushStays ==
    /\ current' = current + 1
    /\ Len(history') = current + 2
    /\ cur(Self)' = NewCall(1).st

\* The second call of the step is the operator of key k; when it succeeds it
\* is a history entry of its own after the one of the push, and when it
\* fails the pushed value stays committed.
OperatorSecond(k) ==
    /\ NewCalls = 2
    /\ NewCall(2).op = Op(ops[k])
    /\ IF NewCall(2).res = Ok
       THEN /\ NewCall(2).cur = current + 2
            /\ NewCall(2).len = current + 3
            /\ history'[current + 2] = NewCall(1).st
       ELSE PushStays

\* Neither a push nor an operator was applied.
NothingApplied == UNCHANGED <<history, current, log>>

\* C39 as stated: an operator key pressed while the input holds a valid
\* number commits Push(input), clears the input and applies the operator as
\* a second, separate history entry, the pushed value staying when the
\* operator fails; on an input that is no number nothing is applied and the
\* history is unchanged.
C39_OperatorKeyPushesThenApplies ==
    [][OperatorKeyOnInput
        => IF input_value(app).ok
           THEN PushCommitted(input_value(app).v) /\ OperatorSecond(app'.key)
           ELSE NothingApplied]_vars

\* Undo as the second call of the step: it succeeds and steps back over the
\* entry of the push, which stays in the history.
UndoSecond ==
    /\ NewCalls = 2
    /\ NewCall(2).op = Op("Undo")
    /\ NewCall(2).res = Ok
    /\ current' = current
    /\ cur(Self)' = cur(Self)
    /\ Len(history') = current + 2
    /\ history'[current + 2] = NewCall(1).st

\* The input after the step reads as the negation of v.
InputNegated(v) ==
    /\ input_value(app').ok
    /\ DecEq(input_value(app').v, DecNeg(v))
    /\ BigSign(input_value(app').v.u) = -BigSign(v.u)

\* C39: with the help hidden, an operator key other than '-' pressed while
\* the input holds a valid number commits Push(input), clears the input and
\* then applies the operator: a successful operator other than Undo is a
\* second, separate history entry, Undo steps back over the entry of the
\* push, and when the operator fails the pushed value stays committed.  '-'
\* on a valid input negates the input and applies nothing.  On an input that
\* is no number nothing is applied and the history is unchanged, and so it
\* is while the help is shown.
C39_OperatorKeyAfterInput ==
    [][OperatorKeyOnInput
        => IF app.help \/ ~input_value(app).ok THEN NothingApplied
           ELSE IF app'.key = "-"
           THEN NothingApplied /\ InputNegated(input_value(app).v)
           ELSE /\ PushCommitted(input_value(app).v)
                /\ IF app'.key = "u" THEN UndoSecond
                   ELSE OperatorSecond(app'.key)]_vars

\* Two keys, a digit and '+', on a stack of two values: Push then Add, each
\* a history entry, and the input is empty.
C39_Witness ==
    /\ budget = MaxKeys - 2
    /\ app.key = "+"
    /\ Len(log) = 3
    /\ log[2].op.kind = "Push"
    /\ Last.op.kind = "Add"
    /\ Last.res = Ok
    /\ Last.cur = 2
    /\ Last.len = 3
    /\ app.input = <<>>

\* The operator failed on the pushed value (a division by the zero typed):
\* the push is the current state.
C39_WitnessFailure ==
    /\ budget = MaxKeys - 2
    /\ app.key = "/"
    /\ Len(log) = 3
    /\ log[2].op.kind = "Push"
    /\ IsErr(Last.res)
    /\ current = 1
    /\ Len(cur(Self).stack) = 3

\* An operator key found an input that is no number: InputError, and no
\* call was made.
C39_WitnessInvalid ==
    /\ app.key \in DOMAIN ops
    /\ app.op_status = InputError
    /\ app.input # <<>>
    /\ Len(log) = 1

\* '-' negated the input; Undo stepped back over the push of its key.
C39_WitnessNegate == app.key = "-" /\ app.input = <<"-", "1">> /\ Len(log) = 1

C39_WitnessUndo ==
    /\ budget = MaxKeys - 2
    /\ app.key = "u"
    /\ Len(log) = 3
    /\ Last.res = Ok
    /\ current = 0
    /\ Len(history) = 2

====
